---- MODULE Spec2Model ----
(***************************************************************************)
(* Delivery engine of the notification service (zascontab/pushwankar).     *)
(*                                                                         *)
(* The model follows the Go sources: the delivery_tracking table and its   *)
(* repository statements, the two HTTP submission paths of                 *)
(* NotificationService, the two acknowledgement paths (HTTP and socket),   *)
(* the resend sweep, the RetryManager with its DeliveryTask, and the part  *)
(* of the session hub the orchestrator talks to.                           *)
(*                                                                         *)
(* Every repository call is one SQL statement and therefore one atomic     *)
(* step; a handler that issues several statements is a process whose       *)
(* position (pc) is part of the state, so that other handlers interleave   *)
(* between its statements exactly where the code allows it.                *)
(***************************************************************************)
EXTENDS Integers, Sequences, FiniteSets, TLC

(***************************************************************************)
(* Bounds of the model.                                                    *)
(***************************************************************************)
MaxNotifications == 1
MaxRows == 2
MaxAttempts == 1
SendBufCap == 1
MaxRetries == 2
MaxRetryCount == 8
MaxCapacity == 2
MaxTime == 3
MaxDrops == 1
MaxTokenRows == 3
MaxDeviceRows == 3

(***************************************************************************)
(* Finite domains.                                                         *)
(***************************************************************************)
DeviceIds == {"d1", "d2"}
ClientIds == {"c1", "c2"}
AckIds == {"a1", "a2"}
ExecIds == {1, 2}
SessIds == {"s1", "s2"}
RegIds == {1, 2}
UserIds == {"1", "2"}
NotificationIds == 1..MaxNotifications

\* entity.TokenType
TokenTypeWebSocket == "websocket"
TokenTypeAPNS == "apns"
TokenTypeFCM == "fcm"
PushTokenTypes == {TokenTypeFCM, TokenTypeAPNS}
Channels == {TokenTypeWebSocket, TokenTypeFCM, TokenTypeAPNS}

\* entity.DeliveryStatus
DeliveryStatusPending == "pending"
DeliveryStatusSent == "sent"
DeliveryStatusDelivered == "delivered"
DeliveryStatusFailed == "failed"
DeliveryStatusExpired == "expired"
DeliveryStatuses ==
  {DeliveryStatusPending, DeliveryStatusSent, DeliveryStatusDelivered,
   DeliveryStatusFailed, DeliveryStatusExpired}

\* the error texts the code stores in delivery_tracking.error_message
ErrSendMessage == "failed to send message to device"
ErrDeviceNotConnected == "Device not connected"
ErrUnsupportedChannel == "Unsupported channel"
ErrMaxRetries == "maximum retries exceeded"

VARIABLES
  devices,            \* devices table: device id -> [user_id, deleted]
  tokens,             \* notification_tokens: the (device, type) pairs with an active token
  notifications,      \* notifications table: the saved notification ids
  delivery_tracking,  \* delivery_tracking table: row id (index) -> row
  clients,            \* Hub.clients: the registered sessions
  deviceClients,      \* Hub.deviceClients: device id -> sessions
  clientDevice,       \* Client.deviceID of each session
  send,               \* Client.send of each session: the queued frames (notification ids)
  received,           \* the (notification, device) frames written to a socket
  unregister,         \* sessions with a pending send on Hub.unregister
  sub,                \* the submission in progress (SendHybridNotification)
  acks,               \* the acknowledgements in progress
  tasks,              \* RetryManager.tasks: the tracked task ids (row ids)
  execs,              \* the executeWithRetry chains (goroutine or timer)
  dlq,                \* RetryManager.dlq: the task ids in the dead-letter queue
  resend,             \* the ResendFailedNotifications sweep in progress
  backoff,            \* the last two calls of calculateNextRetryDelay
  queue,              \* a DeadLetterQueue: tasks, entryTimes, maxCapacity
  now,                \* the reading of time.Now()
  evicted,            \* the task the step just taken evicted from queue
  dlqRetry,           \* the DeadLetterQueue.RetryTask call in progress
  hub,                \* the Hub: worker, shutdown channel, master set, indexes
  sessions,           \* every Client: fields, channel, connection, pumps
  drops,              \* goroutines of a full-buffer push waiting on Hub.unregister
  lastPush,           \* the last SendToDevice / SendToUser call: what it found and did
  cleaner,            \* the ConnectionCleaner: the sweep in progress
  notification_tokens,\* notification_tokens in detail: the rows, in insertion order
  device_rows,        \* devices in detail: row id (index) -> row
  regs,               \* the device registrations in progress
  link,               \* the last device link request and its outcome
  renew,              \* the last token renew request and its outcome
  statusCall,         \* the last DeliveryService.UpdateStatus call and its outcome
  sender,             \* the SendToDevice / SendToUser call in progress, send by send
  sentClosed          \* the sessions on whose closed channel a send was attempted

storeVars == <<devices, tokens, notifications, delivery_tracking>>
hubVars == <<clients, deviceClients, clientDevice, send, received, unregister>>
procVars == <<sub, acks, tasks, execs, dlq, resend>>
\* the state of the components checked on their own
sessVars == <<hub, sessions, drops, lastPush>>
\* the state of the services around the delivery path
tokVars == <<notification_tokens>>
\* the services' state beside the cleaner
devVars == <<device_rows, regs, link, renew>>
idVars == <<tokVars, devVars>>
\* what no step of the session hub or of the cleaner touches
baseVars == <<storeVars, hubVars, procVars, backoff, queue, now, evicted, dlqRetry>>
\* the callers of the hub taken one send at a time
callVars == <<sender, sentClosed>>
ghostVars == <<statusCall, callVars>>
svcVars == <<cleaner, ghostVars, idVars>>
extVars == <<backoff, queue, now, evicted, dlqRetry, sessVars, svcVars>>
vars == <<devices, tokens, notifications, delivery_tracking,
          clients, deviceClients, clientDevice, send, received, unregister,
          sub, acks, tasks, execs, dlq, resend, extVars>>


(***************************************************************************)
(* Rows and repository statements (postgres.DeliveryRepository).  Each is  *)
(* a single UPDATE / INSERT / SELECT keyed by id: the UPDATEs carry no     *)
(* condition on the row's current status.                                  *)
(***************************************************************************)
NoRow == 0

\* entity.NewDeliveryTracking
NewDeliveryTracking(n, d, ch) ==
  [notification_id |-> n, device_id |-> d, channel |-> ch,
   status |-> DeliveryStatusPending, retry_count |-> 0, error_message |-> ""]

\* DeliveryRepository.Create: INSERT; the new row's id is its index
Create(t, n, d, ch) == Append(t, NewDeliveryTracking(n, d, ch))

\* the foreign keys of delivery_tracking (notification_id, device_id)
ForeignKeysOk(n, d) == n \in notifications /\ d \in DeviceIds

\* DeliveryRepository.MarkAsSent
MarkAsSent(t, id) == [t EXCEPT ![id].status = DeliveryStatusSent]

\* DeliveryRepository.MarkAsDelivered
MarkAsDelivered(t, id) == [t EXCEPT ![id].status = DeliveryStatusDelivered]

\* DeliveryRepository.MarkAsFailed
MarkAsFailed(t, id, errorMsg) ==
  [t EXCEPT ![id].status = DeliveryStatusFailed,
            ![id].error_message = errorMsg,
            ![id].retry_count = @ + 1]

\* DeliveryRepository.UpdateStatus
UpdateStatus(t, id, status) == [t EXCEPT ![id].status = status]

\* DeliveryRepository.GetPendingForRetry
GetPendingForRetry(t, maxRetries) ==
  {id \in DOMAIN t :
     /\ t[id].status \in {DeliveryStatusPending, DeliveryStatusFailed}
     /\ t[id].retry_count < maxRetries}

\* DeliveryRepository.GetByNotificationID
GetByNotificationID(t, n) == {id \in DOMAIN t : t[id].notification_id = n}

\* NotificationService.GetDeliveryStatus as the handler reports it:
\* the (device_id, status) pairs of the notification's rows
GetDeliveryStatus(t, n) ==
  {<<t[id].device_id, t[id].status>> : id \in GetByNotificationID(t, n)}

\* DeviceRepository.GetByUserID: WHERE user_id = $1 (delete_time is not read)
GetByUserID(userID) == {d \in DeviceIds : devices[d].user_id = userID}

\* TokenRepository.GetByDeviceAndType: an active, non-revoked, non-expired token
GetByDeviceAndType(d, tokenType) == <<d, tokenType>> \in tokens

(***************************************************************************)
(* The hub as the orchestrator sees it.                                    *)
(***************************************************************************)
\* Hub.IsDeviceConnected
IsDeviceConnected(d) == deviceClients[d] # {}

\* the sessions of a device whose outbound channel takes one more frame
Accepting(d) == {c \in deviceClients[d] : Len(send[c]) < SendBufCap}

\* Hub.SendToDevice / WebSocketManager.SendMessage: the returned success
SendToDevice(d) == Accepting(d) # {}

\* Hub.SendToDevice: the frames enqueued and the unregister requests spawned
SendToDeviceEffect(d, n) ==
  /\ send' = [c \in ClientIds |->
                IF c \in Accepting(d) THEN Append(send[c], n) ELSE send[c]]
  /\ unregister' = unregister \cup (deviceClients[d] \ Accepting(d))
  /\ UNCHANGED <<clients, deviceClients, clientDevice, received>>

\* all orderings of the non-empty subsets of a set (request lists, SELECT results)
RECURSIVE SeqsOver(_)
SeqsOver(S) ==
  IF S = {} THEN {<< >>}
  ELSE {<< >>} \cup
       UNION {{<<x>> \o q : q \in SeqsOver(S \ {x})} : x \in S}

RECURSIVE PermsOf(_)
PermsOf(S) ==
  IF S = {} THEN {<< >>}
  ELSE UNION {{<<x>> \o q : q \in PermsOf(S \ {x})} : x \in S}


(***************************************************************************)
(* Initial state: both devices registered and linked to user "1", nothing  *)
(* submitted yet, nobody connected.                                        *)
(***************************************************************************)
SubIdle ==
  [pc |-> "idle", kind |-> "", notification |-> 0, channels |-> {},
   byUser |-> FALSE, targets |-> << >>, use |-> {}, delivery |-> NoRow,
   deliveredToAny |-> FALSE, hasErrors |-> FALSE, result |-> "",
   created |-> {}, attempted |-> {}, counted |-> {}, tombstoned |-> {}]

AckIdle ==
  [pc |-> "idle", via |-> "", notification |-> 0, device |-> "d1",
   delivery |-> NoRow, found |-> FALSE, result |-> ""]

\* the results of RetryableTask.Execute that executeWithRetry may see
ExecuteNil == "nil"
ExecuteFailed == "failed to update status"
ContextCanceled == "context canceled"

\* a retry chain: its task, the retry count GetRetryCount returns, the
\* attempts IncrementRetryCount counts, the error of its last failed Execute
\* and the delay, before jitter, of the last timer it set (0: none yet)
ExecFree ==
  [pc |-> "free", delivery |-> NoRow, retryCount |-> 0, attempts |-> 0,
   err |-> ExecuteNil, delay |-> 0]

ResendIdle == [pc |-> "idle", queue |-> {}]

\* the tasks a dead-letter queue is given (RetryableTask.GetID)
TaskIds == {"t1", "t2", "t3"}

\* NewDeadLetterQueue with retention 0: no cleanup timer is started
NewDeadLetterQueue(maxCapacity) ==
  [tasks |-> {}, entryTimes |-> << >>, maxCapacity |-> maxCapacity]

NoRetryTask == [pc |-> "idle", task |-> ""]

\* no call of calculateNextRetryDelay yet
NoBackoff ==
  [retryCount |-> 0, nano |-> 0, called |-> FALSE, count |-> 0, delay |-> 0,
   jittered |-> 0, prevCalled |-> FALSE, prevCount |-> 0, prevDelay |-> 0]

InitSystem ==
  /\ devices = [d \in DeviceIds |-> [user_id |-> "1", deleted |-> FALSE]]
  /\ tokens = {}
  /\ notifications = {}
  /\ delivery_tracking = << >>
  /\ clients = {}
  /\ deviceClients = [d \in DeviceIds |-> {}]
  /\ clientDevice = [c \in ClientIds |-> "d1"]
  /\ send = [c \in ClientIds |-> << >>]
  /\ received = {}
  /\ unregister = {}
  /\ sub = SubIdle
  /\ acks = [a \in AckIds |-> AckIdle]
  /\ tasks = {}
  /\ execs = [e \in ExecIds |-> ExecFree]
  /\ dlq = {}
  /\ resend = ResendIdle

NewHub ==
  [run |-> "running", shutdown |-> FALSE, clients |-> {},
   deviceClients |-> << >>, userClients |-> << >>]

\* a Client before WebSocketManager.HandleConnection has built it
NoClient ==
  [st |-> "none", deviceID |-> "d1", userID |-> "", send |-> 0, unwritten |-> FALSE,
   closed |-> FALSE, conn |-> "open", reader |-> "idle", writer |-> "idle",
   closeFrame |-> FALSE, lastActivity |-> 0]

\* NewClient (lastActivity: time.Now()), with both pumps started
NewClient(d, u) ==
  [NoClient EXCEPT !.st = "open", !.deviceID = d, !.userID = u,
                   !.reader = "run", !.writer = "run", !.lastActivity = now]

\* a ConnectionCleaner between two sweeps
NoSweep ==
  [pc |-> "idle", swept |-> FALSE, threshold |-> 0, seen |-> {}, snapshot |-> {},
   read |-> [s \in SessIds |-> 0], inactive |-> {}, offer |-> {}, sent |-> {}]

\* user_id NULL
NoUser == ""

\* entity.NewDevice
NewDevice(deviceIdentifier, userID) ==
  [device_identifier |-> deviceIdentifier, user_id |-> userID, deleted |-> FALSE]

\* no registration running
RegIdle ==
  [pc |-> "idle", identifier |-> "", user |-> NoUser, existing |-> 0,
   device |-> NewDevice("", NoUser), result |-> "", returned |-> 0, known |-> FALSE,
   created |-> FALSE]

\* a token string: whether it is "", its dot-separated parts, the payload
\* part, and whether the signature part is the HMAC of the rest
NoToken == [empty |-> TRUE, parts |-> 1, payload |-> << >>, signed |-> FALSE]

\* no link request yet
NoLink ==
  [called |-> FALSE, via |-> "", device_id |-> 0, user |-> NoUser, token |-> NoToken,
   result |-> "", before |-> NoUser, acceptable |-> FALSE, issued |-> NoToken]

\* no renew request yet; err is what VerifyToken said of the token,
\* recovered whether the device_identifier was extracted (and, for a session,
\* is the session's), and identifier what was extracted
NoRenew ==
  [called |-> FALSE, via |-> "", token |-> NoToken, force |-> FALSE, err |-> "",
   recovered |-> FALSE, identifier |-> "", result |-> "", token_type |-> "",
   issued |-> NoToken]

\* the device service with the given devices table
InitIdentity(rows) ==
  /\ device_rows = rows
  /\ regs = [r \in RegIds |-> RegIdle]
  /\ link = NoLink
  /\ renew = NoRenew

\* no call of DeliveryService.UpdateStatus yet
NoStatusCall ==
  [called |-> FALSE, id |-> 0, found |-> FALSE, from |-> "", to |-> "",
   result |-> "", after |-> ""]

\* no SendToDevice / SendToUser call in progress
NoSend ==
  [pc |-> "idle", index |-> "", key |-> "", seen |-> {}, visited |-> {},
   sentToAny |-> FALSE]

InitCallers ==
  /\ sender = NoSend
  /\ sentClosed = {}

InitServices ==
  /\ cleaner = NoSweep
  /\ statusCall = NoStatusCall
  /\ InitCallers
  /\ notification_tokens = << >>
  /\ InitIdentity(<< >>)

NoPush ==
  [called |-> FALSE, bound |-> {}, room |-> {}, accepted |-> {}, result |-> FALSE]

InitSessions ==
  /\ hub = NewHub
  /\ sessions = [s \in SessIds |-> NoClient]
  /\ drops = [s \in SessIds |-> 0]
  /\ lastPush = NoPush

Init ==
  /\ InitSystem
  /\ backoff = NoBackoff
  /\ queue = NewDeadLetterQueue(0)
  /\ now = 0
  /\ evicted = {}
  /\ dlqRetry = NoRetryTask
  /\ InitSessions
  /\ InitServices

(***************************************************************************)
(* Sessions (websocket.Hub, websocket.Client).                             *)
(***************************************************************************)
\* Hub.registerClient, reached from WebSocketManager.HandleConnection with a
\* new Client whose outbound channel is empty
HandleConnection(c, d) ==
  /\ c \notin clients
  /\ c \notin unregister
  /\ clients' = clients \cup {c}
  /\ clientDevice' = [clientDevice EXCEPT ![c] = d]
  /\ deviceClients' = [deviceClients EXCEPT ![d] = @ \cup {c}]
  /\ send' = [send EXCEPT ![c] = << >>]
  /\ UNCHANGED <<unregister, received, storeVars, procVars, extVars>>

\* Client.readPump leaving its loop on a read error: c.hub.unregister <- c
ReadPumpExit(c) ==
  /\ c \in clients
  /\ c \notin unregister
  /\ unregister' = unregister \cup {c}
  /\ UNCHANGED <<clients, deviceClients, clientDevice, send, received, storeVars, procVars, extVars>>

\* Hub.Run receiving from Hub.unregister: Hub.unregisterClient; the Client
\* and its channel are dropped
UnregisterClient(c) ==
  /\ c \in unregister
  /\ unregister' = unregister \ {c}
  /\ clients' = clients \ {c}
  /\ deviceClients' = [deviceClients EXCEPT ![clientDevice[c]] = @ \ {c}]
  /\ clientDevice' = [clientDevice EXCEPT ![c] = "d1"]
  /\ send' = [send EXCEPT ![c] = << >>]
  /\ UNCHANGED <<received, storeVars, procVars, extVars>>

\* Client.writePump: writes the frame it received and every queued one
WritePump(c) ==
  /\ c \in clients
  /\ send[c] # << >>
  /\ send' = [send EXCEPT ![c] = << >>]
  /\ received' = received \cup
                   {<<send[c][i], clientDevice[c]>> : i \in 1..Len(send[c])}
  /\ UNCHANGED <<clients, deviceClients, clientDevice, unregister, storeVars, procVars, extVars>>

(***************************************************************************)
(* Channel tokens and device clean-up.                                     *)
(***************************************************************************)
\* TokenRepository.Upsert as the delivery path sees it: the pair has an
\* active token
Upsert(d, tokenType) ==
  /\ <<d, tokenType>> \notin tokens
  /\ tokens' = tokens \cup {<<d, tokenType>>}
  /\ UNCHANGED <<devices, notifications, delivery_tracking, hubVars, procVars, extVars>>

\* DeviceService.CleanupInactiveDevices for one inactive device:
\* TokenRepository.RevokeAllForDevice, then DeviceRepository.Delete (tombstone)
CleanupInactiveDevices(d) ==
  /\ ~devices[d].deleted
  /\ tokens' = {tk \in tokens : tk[1] # d}
  /\ devices' = [devices EXCEPT ![d].deleted = TRUE]
  /\ UNCHANGED <<notifications, delivery_tracking, hubVars, procVars, extVars>>


(***************************************************************************)
(* Submission: NotificationHandler.SendHybridNotification, which calls     *)
(* NotificationService.SendNotificationToDevices when device_ids are given *)
(* and NotificationService.SendNotification (user fan-out) otherwise.      *)
(***************************************************************************)
\* the flags useWebSocket / useFCM / useAPNS of SendNotificationToDevices
UseChannels(channels) == IF channels = {} THEN Channels ELSE channels

\* entity.NewNotification + NotificationRepository.Save: the new id
NewNotificationId == Cardinality(notifications) + 1

\* the return value of both submission paths once the device loop has ended
SubmissionResult(deliveredToAny, hasErrors) ==
  IF ~deliveredToAny /\ hasErrors THEN "delivery_failed" ELSE "success"

SaveFailedUnreported(kind, byUser, channels) ==
  [SubIdle EXCEPT !.pc = "done", !.kind = kind, !.byUser = byUser,
                  !.channels = channels, !.result = "success"]

\* notificationRepo.Save fails: the submission returns
\* ErrFailedToSaveNotification and no notification id
SaveFailed(kind, byUser, channels) ==
  [SubIdle EXCEPT !.pc = "done", !.kind = kind, !.byUser = byUser,
                  !.channels = channels, !.result = "save_failed"]

\* handler entry, with explicit device_ids: SendNotificationToDevices up to the loop
SendNotificationToDevices(userID, deviceIDs, channels, saveOk) ==
  /\ sub.pc \in {"idle", "done"}
  /\ deviceIDs # << >>
  /\ NewNotificationId <= MaxNotifications
  /\ IF ~saveOk
     THEN /\ sub' = SaveFailed("devices", FALSE, channels)
          /\ UNCHANGED notifications
     ELSE /\ notifications' = notifications \cup {NewNotificationId}
          /\ sub' = [SubIdle EXCEPT !.pc = "loop", !.kind = "devices",
                       !.notification = NewNotificationId,
                       !.channels = channels,
                       !.targets = deviceIDs,
                       !.use = UseChannels(channels)]
  /\ UNCHANGED <<devices, tokens, delivery_tracking, hubVars, acks, tasks, execs, dlq, resend, extVars>>

\* the devices whose row carries a delete_time
Tombstoned == {d \in DeviceIds : devices[d].deleted}

\* handler entry, without device_ids: SendNotification up to the loop; the
\* request's channels are not passed on.  order is the SELECT's result.
SendNotification(userID, channels, saveOk, listOk, order) ==
  /\ sub.pc \in {"idle", "done"}
  /\ NewNotificationId <= MaxNotifications
  /\ order \in PermsOf(GetByUserID(userID))
  /\ IF ~saveOk
     THEN /\ listOk
          /\ sub' = SaveFailed("user", TRUE, channels)
          /\ UNCHANGED notifications
     ELSE /\ notifications' = notifications \cup {NewNotificationId}
          /\ sub' = IF ~listOk
                    THEN [SubIdle EXCEPT !.pc = "done", !.kind = "user",
                            !.byUser = TRUE,
                            !.notification = NewNotificationId,
                            !.channels = channels, !.result = "list_failed"]
                    ELSE IF order = << >>
                    THEN [SubIdle EXCEPT !.pc = "done", !.kind = "user",
                            !.byUser = TRUE,
                            !.notification = NewNotificationId,
                            !.channels = channels, !.result = "no_devices"]
                    ELSE [SubIdle EXCEPT !.pc = "loop", !.kind = "user",
                            !.byUser = TRUE,
                            !.notification = NewNotificationId,
                            !.channels = channels,
                            !.targets = order,
                            !.use = {TokenTypeWebSocket},
                            !.tombstoned = Tombstoned]
  /\ UNCHANGED <<devices, tokens, delivery_tracking, hubVars, acks, tasks, execs, dlq, resend, extVars>>

\* the loop has run out of devices: the submission returns
SubReturn ==
  /\ sub.pc = "loop"
  /\ sub.targets = << >>
  /\ sub' = [sub EXCEPT !.pc = "done",
               !.result = SubmissionResult(sub.deliveredToAny, sub.hasErrors)]
  /\ UNCHANGED <<storeVars, hubVars, acks, tasks, execs, dlq, resend, extVars>>

\* SendNotificationToDevices: deviceRepo.GetByID fails, the device is skipped
SubDeviceNotFound ==
  /\ sub.pc = "loop"
  /\ sub.kind = "devices"
  /\ sub.targets # << >>
  /\ sub' = [sub EXCEPT !.targets = Tail(@)]
  /\ UNCHANGED <<storeVars, hubVars, acks, tasks, execs, dlq, resend, extVars>>

\* the live-socket branch is taken: the row is created (or Create fails)
SubCreateWebSocket(createOk) ==
  /\ sub.pc = "loop"
  /\ sub.targets # << >>
  /\ TokenTypeWebSocket \in sub.use
  /\ IsDeviceConnected(Head(sub.targets))
  /\ IF createOk
     THEN /\ Len(delivery_tracking) < MaxRows
          /\ delivery_tracking' =
               Create(delivery_tracking, sub.notification, Head(sub.targets),
                      TokenTypeWebSocket)
          /\ sub' = [sub EXCEPT !.pc = "ws_send",
                       !.delivery = Len(delivery_tracking) + 1,
                       !.created = @ \cup {Len(delivery_tracking) + 1}]
     ELSE /\ sub' = [sub EXCEPT !.hasErrors = TRUE, !.targets = Tail(@)]
          /\ UNCHANGED delivery_tracking
  /\ UNCHANGED <<devices, tokens, notifications, hubVars, acks, tasks, execs, dlq, resend, extVars>>

\* wsManager.SendMessage; on error MarkAsFailed with the error's text and
\* `continue` to the next device
SubSendMessage ==
  /\ sub.pc = "ws_send"
  /\ SendToDeviceEffect(Head(sub.targets), sub.notification)
  /\ IF SendToDevice(Head(sub.targets))
     THEN /\ sub' = [sub EXCEPT !.pc = "ws_mark",
                       !.attempted = @ \cup {<<Head(sub.targets), TokenTypeWebSocket>>}]
          /\ UNCHANGED delivery_tracking
     ELSE /\ delivery_tracking' =
               MarkAsFailed(delivery_tracking, sub.delivery, ErrSendMessage)
          /\ sub' = [sub EXCEPT !.pc = "loop", !.hasErrors = TRUE,
                       !.targets = Tail(@), !.delivery = NoRow,
                       !.attempted = @ \cup {<<Head(sub.targets), TokenTypeWebSocket>>}]
  /\ UNCHANGED <<devices, tokens, notifications, acks, tasks, execs, dlq, resend, extVars>>

\* deliveryRepo.MarkAsSent after an accepted frame, then `continue`
SubMarkAsSent ==
  /\ sub.pc = "ws_mark"
  /\ delivery_tracking' = MarkAsSent(delivery_tracking, sub.delivery)
  /\ sub' = [sub EXCEPT !.pc = "loop", !.deliveredToAny = TRUE,
               !.counted = @ \cup {Head(sub.targets)},
               !.targets = Tail(@), !.delivery = NoRow]
  /\ UNCHANGED <<devices, tokens, notifications, hubVars, acks, tasks, execs, dlq, resend, extVars>>

\* SendNotification: a device that is not connected gets nothing
SubNotConnected ==
  /\ sub.pc = "loop"
  /\ sub.kind = "user"
  /\ sub.targets # << >>
  /\ ~IsDeviceConnected(Head(sub.targets))
  /\ sub' = [sub EXCEPT !.targets = Tail(@)]
  /\ UNCHANGED <<storeVars, hubVars, acks, tasks, execs, dlq, resend, extVars>>

\* SendNotificationToDevices: the live-socket branch is not taken
SubToProviders ==
  /\ sub.pc = "loop"
  /\ sub.kind = "devices"
  /\ sub.targets # << >>
  /\ ~(TokenTypeWebSocket \in sub.use /\ IsDeviceConnected(Head(sub.targets)))
  /\ sub' = [sub EXCEPT !.pc = TokenTypeFCM]
  /\ UNCHANGED <<storeVars, hubVars, acks, tasks, execs, dlq, resend, extVars>>

\* one provider branch (FCM, then APNS): with a token the row is created and
\* the device counted as delivered; no adapter is called
SubProvider(tokenType, next, createOk) ==
  /\ sub.pc = tokenType
  /\ IF tokenType \in sub.use /\ GetByDeviceAndType(Head(sub.targets), tokenType)
     THEN IF createOk
          THEN /\ Len(delivery_tracking) < MaxRows
               /\ delivery_tracking' =
                    Create(delivery_tracking, sub.notification, Head(sub.targets),
                           tokenType)
               /\ sub' = [sub EXCEPT !.pc = next, !.deliveredToAny = TRUE,
                            !.counted = @ \cup {Head(sub.targets)},
                            !.created = @ \cup {Len(delivery_tracking) + 1},
                            !.targets = IF next = "loop" THEN Tail(@) ELSE @]
          ELSE /\ sub' = [sub EXCEPT !.pc = next, !.hasErrors = TRUE,
                            !.targets = IF next = "loop" THEN Tail(@) ELSE @]
               /\ UNCHANGED delivery_tracking
     ELSE /\ createOk
          /\ sub' = [sub EXCEPT !.pc = next,
                       !.targets = IF next = "loop" THEN Tail(@) ELSE @]
          /\ UNCHANGED delivery_tracking
  /\ UNCHANGED <<devices, tokens, notifications, hubVars, acks, tasks, execs, dlq, resend, extVars>>

SubFCM(createOk) == SubProvider(TokenTypeFCM, TokenTypeAPNS, createOk)

SubAPNS(createOk) == SubProvider(TokenTypeAPNS, "loop", createOk)


(***************************************************************************)
(* Acknowledgement.  via = "ws": the `ack` frame of a session, handled by  *)
(* DeliveryService.ConfirmDelivery in its own goroutine.  via = "http":    *)
(* POST /notifications/confirm, NotificationService.ConfirmDelivery.       *)
(* Both read the notification's rows, take the first one of the device     *)
(* (the SELECT has no ORDER BY) and call DeliveryRepository.MarkAsDelivered*)
(* on it without looking at its status.                                    *)
(***************************************************************************)
\* the rows of (n, d) among the SELECT's result
RowsOf(t, n, d) == {id \in GetByNotificationID(t, n) : t[id].device_id = d}

\* the record of an acknowledgement that has returned
AckReturn(via, n, d, id, found, result) ==
  [pc |-> "idle", via |-> via, notification |-> n, device |-> d,
   delivery |-> id, found |-> found, result |-> result]

\* the second slot is used only while the first is busy
AckSlotFree(a) ==
  /\ acks[a].pc = "idle"
  /\ a = "a2" => acks["a1"].pc # "idle"

\* ConfirmDelivery up to and including GetByNotificationID and the search
ConfirmDelivery(a, via, n, d, getOk, id) ==
  /\ AckSlotFree(a)
  /\ via = "ws" => IsDeviceConnected(d)
  /\ IF ~getOk
     THEN /\ id = NoRow
          /\ acks' = [acks EXCEPT ![a] = AckReturn(via, n, d, NoRow, FALSE, "error")]
     ELSE IF RowsOf(delivery_tracking, n, d) # {}
          THEN /\ id \in RowsOf(delivery_tracking, n, d)
               /\ acks' = [acks EXCEPT ![a] =
                    [pc |-> "mark", via |-> via, notification |-> n, device |-> d,
                     delivery |-> id, found |-> TRUE, result |-> ""]]
          ELSE /\ id = NoRow
               /\ acks' = [acks EXCEPT ![a] =
                    IF via = "ws"
                    THEN [pc |-> "create", via |-> via, notification |-> n,
                          device |-> d, delivery |-> NoRow, found |-> FALSE,
                          result |-> ""]
                    ELSE AckReturn(via, n, d, NoRow, FALSE, "error")]
  /\ UNCHANGED <<storeVars, hubVars, sub, tasks, execs, dlq, resend, extVars>>

\* the acknowledgement of a device that has received the frame
DeviceAck(a, via, n, d, getOk, id) ==
  /\ <<n, d>> \in received
  /\ ConfirmDelivery(a, via, n, d, getOk, id)

\* DeliveryService.ConfirmDelivery, no row found: Create a websocket row
ConfirmCreate(a, createOk) ==
  /\ acks[a].pc = "create"
  /\ IF createOk /\ ForeignKeysOk(acks[a].notification, acks[a].device)
     THEN /\ Len(delivery_tracking) < MaxRows
          /\ delivery_tracking' =
               Create(delivery_tracking, acks[a].notification, acks[a].device,
                      TokenTypeWebSocket)
          /\ acks' = [acks EXCEPT ![a].pc = "mark",
                                  ![a].delivery = Len(delivery_tracking) + 1]
     ELSE /\ acks' = [acks EXCEPT ![a].pc = "idle", ![a].result = "error"]
          /\ UNCHANGED delivery_tracking
  /\ UNCHANGED <<devices, tokens, notifications, hubVars, sub, tasks, execs, dlq, resend, extVars>>

\* deliveryRepo.MarkAsDelivered on the located (or just created) row; the
\* acknowledgement returns
ConfirmMarkAsDelivered(a, markOk) ==
  /\ acks[a].pc = "mark"
  /\ IF markOk
     THEN /\ delivery_tracking' = MarkAsDelivered(delivery_tracking, acks[a].delivery)
          /\ acks' = [acks EXCEPT ![a].pc = "idle", ![a].result = "success"]
     ELSE /\ acks' = [acks EXCEPT ![a].pc = "idle", ![a].result = "error"]
          /\ UNCHANGED delivery_tracking
  /\ UNCHANGED <<devices, tokens, notifications, hubVars, sub, tasks, execs, dlq, resend, extVars>>

(***************************************************************************)
(* Retry scheduler: queue.RetryManager and queue.DeliveryTask.             *)
(***************************************************************************)
FreeExecs == {e \in ExecIds : execs[e].pc = "free"}

Rank(x, S) == Cardinality({y \in S : y < x})

\* the element of S with the given rank
AtRank(r, S) == CHOOSE x \in S : Rank(x, S) = r

\* RetryManager.processPendingDeliveries, one tick: GetPendingForRetry, then
\* RetryManager.AddTask for every row whose notification could be read (polled).
\* AddTask stores the task under its id and starts executeWithRetry.
ProcessPendingDeliveries(polled) ==
  /\ polled # {}
  /\ polled \subseteq GetPendingForRetry(delivery_tracking, MaxRetries)
  /\ Cardinality(polled) <= Cardinality(FreeExecs)
  /\ tasks' = tasks \cup polled
  /\ execs' = [e \in ExecIds |->
                 IF e \in FreeExecs /\ Rank(e, FreeExecs) < Cardinality(polled)
                 THEN [pc |-> "run",
                       delivery |-> AtRank(Rank(e, FreeExecs), polled),
                       retryCount |->
                         delivery_tracking[AtRank(Rank(e, FreeExecs), polled)].retry_count,
                       attempts |-> 0,
                       err |-> ExecuteNil,
                       delay |-> 0]
                 ELSE execs[e]]
  /\ UNCHANGED <<storeVars, hubVars, sub, acks, resend, dlq, extVars>>

(***************************************************************************)
(* RetryManager.calculateNextRetryDelay under DefaultRetryStrategy.  A     *)
(* time.Duration is kept in milliseconds; the strategy's intervals are     *)
(* whole milliseconds and the product of line 163 stays below 2^63 ns for  *)
(* every retry count up to 34, so no step of the computation rounds or     *)
(* wraps for the counts 0..MaxRetryCount.                                  *)
(***************************************************************************)
BaseInterval == 500
Multiplier == 2
MaxInterval == 60000
JitterPercent == 20

\* the readings of time.Now().UnixNano() the jitter is computed from
NanoSamples == {0, 1, 499, 500, 999, 1000, 1999}

\* math.Pow on a whole base and a whole, non-negative exponent
RECURSIVE Pow(_, _)
Pow(b, n) == IF n = 0 THEN 1 ELSE b * Pow(b, n - 1)

BackoffDelayUncapped(retryCount) == BaseInterval * Pow(Multiplier, retryCount)

\* calculateNextRetryDelay up to the jitter: base * multiplier^retryCount,
\* replaced by the maximum interval when larger
BackoffDelay(retryCount) ==
  IF BaseInterval * Pow(Multiplier, retryCount) > MaxInterval
  THEN MaxInterval
  ELSE BaseInterval * Pow(Multiplier, retryCount)

\* the jitter of calculateNextRetryDelay, in microseconds:
\* delay - jitter/2 + jitter * (nano % 1000) / 1000 with jitter = delay * Jitter
Jittered(delay, nano) ==
  IF JitterPercent > 0
  THEN delay * 1000 - ((delay * JitterPercent) \div 100) * 500
         + ((delay * JitterPercent) \div 100) * (nano % 1000)
  ELSE delay * 1000

\* DeliveryTask.GetRetryCount: the retry_count of the row as it was polled
GetRetryCount(e) == execs[e].retryCount

\* DeliveryTask.IncrementRetryCount: t.attempts++, a field nothing reads
\* (counted up to MaxAttempts)
IncrementRetryCount(attempts) ==
  IF attempts < MaxAttempts THEN attempts + 1 ELSE attempts

\* RetryManager.executeWithRetry up to the result of task.Execute
\* (DeliveryTask.Execute = UpdateStatus(PENDING)) and, when it failed, the
\* count and the timer of lines 141-158; with the retries used up,
\* RetryManager.moveToDeadLetterQueue and DeliveryTask.OnFailure
ExecuteWithRetry(e, err) ==
  /\ execs[e].pc = "run"
  /\ IF GetRetryCount(e) >= MaxRetries
     THEN /\ err = ExecuteNil
          /\ tasks' = tasks \ {execs[e].delivery}
          /\ dlq' = dlq \cup {execs[e].delivery}
          /\ delivery_tracking' =
               MarkAsFailed(delivery_tracking, execs[e].delivery, ErrMaxRetries)
          /\ execs' = [execs EXCEPT ![e] = ExecFree]
     ELSE IF err = ExecuteNil
          THEN /\ delivery_tracking' =
                    UpdateStatus(delivery_tracking, execs[e].delivery,
                                 DeliveryStatusPending)
               /\ execs' = [execs EXCEPT ![e].pc = "success"]
               /\ UNCHANGED <<tasks, dlq>>
          ELSE /\ execs' = [execs EXCEPT ![e].pc = "timer",
                                          ![e].attempts = IncrementRetryCount(@),
                                          ![e].err = err,
                                          ![e].delay = BackoffDelay(GetRetryCount(e))]
               /\ UNCHANGED <<tasks, dlq, delivery_tracking>>
  /\ UNCHANGED <<devices, tokens, notifications, hubVars, sub, acks, resend, extVars>>

\* DeliveryTask.OnSuccess (MarkAsSent), then delete(m.tasks, taskID)
OnSuccess(e) ==
  /\ execs[e].pc = "success"
  /\ delivery_tracking' = MarkAsSent(delivery_tracking, execs[e].delivery)
  /\ tasks' = tasks \ {execs[e].delivery}
  /\ execs' = [execs EXCEPT ![e] = ExecFree]
  /\ UNCHANGED <<devices, tokens, notifications, hubVars, sub, acks, resend, dlq, extVars>>

\* the time.AfterFunc callback of executeWithRetry
RetryTimer(e) ==
  /\ execs[e].pc = "timer"
  /\ execs' = [execs EXCEPT ![e] =
                 IF execs[e].delivery \in tasks
                 THEN [execs[e] EXCEPT !.pc = "run"]
                 ELSE ExecFree]
  /\ UNCHANGED <<storeVars, hubVars, sub, acks, tasks, resend, dlq, extVars>>

\* one call of calculateNextRetryDelay on the arguments at hand; the caller
\* comes back with the next retry count and clock reading
CalculateNextRetryDelay(nextCount, nextNano) ==
  /\ backoff' =
       [retryCount |-> nextCount,
        nano |-> nextNano,
        called |-> TRUE,
        count |-> backoff.retryCount,
        delay |-> BackoffDelay(backoff.retryCount),
        jittered |-> Jittered(BackoffDelay(backoff.retryCount), backoff.nano),
        prevCalled |-> backoff.called,
        prevCount |-> backoff.count,
        prevDelay |-> backoff.delay]
  /\ UNCHANGED <<storeVars, hubVars, procVars, svcVars, queue, now, evicted, dlqRetry, sessVars>>

(***************************************************************************)
(* queue.DeadLetterQueue.  Its tasks are RetryableTask values, known to    *)
(* the queue by GetID, Execute and OnSuccess only.                         *)
(***************************************************************************)
\* f without the key k
Without(f, k) == [x \in (DOMAIN f) \ {k} |-> f[x]]

\* f with the key k set to v
With(f, k, v) == [x \in (DOMAIN f) \cup {k} |-> IF x = k THEN v ELSE f[x]]

Newest(q) ==
  {id \in DOMAIN q.entryTimes :
     \A o \in DOMAIN q.entryTimes : q.entryTimes[o] <= q.entryTimes[id]}

\* AddTask's search loop: an entry no other entry is Before; the range over
\* the map visits the entries in any order and keeps the first of equal times
Oldest(q) ==
  {id \in DOMAIN q.entryTimes :
     \A o \in DOMAIN q.entryTimes : q.entryTimes[id] <= q.entryTimes[o]}

IsFull(q) == q.maxCapacity > 0 /\ Cardinality(q.tasks) >= q.maxCapacity

\* time passes
Tick ==
  /\ now < MaxTime
  /\ now' = now + 1
  /\ evicted' = {}
  /\ UNCHANGED <<storeVars, hubVars, procVars, svcVars, backoff, queue, dlqRetry, sessVars>>

\* DeadLetterQueue.AddTask
AddTask(taskID) ==
  /\ IF IsFull(queue) /\ Oldest(queue) # {}
     THEN \E oldestID \in Oldest(queue) :
            /\ queue' =
                 [queue EXCEPT
                    !.tasks = (@ \ {oldestID}) \cup {taskID},
                    !.entryTimes = With(Without(@, oldestID), taskID, now)]
            /\ evicted' = {oldestID}
     ELSE /\ queue' = [queue EXCEPT !.tasks = @ \cup {taskID},
                                    !.entryTimes = With(@, taskID, now)]
          /\ evicted' = {}
  /\ UNCHANGED <<storeVars, hubVars, procVars, svcVars, backoff, now, dlqRetry, sessVars>>

\* DeadLetterQueue.RemoveTask
RemoveTask(taskID) ==
  /\ queue' = [queue EXCEPT !.tasks = @ \ {taskID},
                            !.entryTimes = Without(@, taskID)]
  /\ evicted' = {}
  /\ UNCHANGED <<storeVars, hubVars, procVars, svcVars, backoff, now, dlqRetry, sessVars>>

\* DeadLetterQueue.RetryTask up to the result of task.Execute: the lookup
\* under the lock, then Execute and, when it succeeded, OnSuccess
RetryTask(taskID, executeOk) ==
  /\ dlqRetry.pc = "idle"
  /\ dlqRetry' = IF taskID \in queue.tasks /\ executeOk
                 THEN [pc |-> "remove", task |-> taskID]
                 ELSE NoRetryTask
  /\ evicted' = {}
  /\ UNCHANGED <<storeVars, hubVars, procVars, svcVars, backoff, queue, now, sessVars>>

\* the RemoveTask call that ends a successful RetryTask
RetryTaskRemove ==
  /\ dlqRetry.pc = "remove"
  /\ queue' = [queue EXCEPT !.tasks = @ \ {dlqRetry.task},
                            !.entryTimes = Without(@, dlqRetry.task)]
  /\ dlqRetry' = NoRetryTask
  /\ evicted' = {}
  /\ UNCHANGED <<storeVars, hubVars, procVars, svcVars, backoff, now, sessVars>>

(***************************************************************************)
(* Sessions in detail: the select loop of Hub.Run, the two pumps of every  *)
(* Client and the callers of the hub.  A session is created once; its      *)
(* outbound channel holds at most SendBufCap frames.  A panic of the hub   *)
(* worker (close of a closed channel) ends the process: nothing runs after *)
(* it.                                                                     *)
(***************************************************************************)
Alive == hub.run # "panicked"

\* the sessions an index holds under a key
Bound(index, key) == IF key \in DOMAIN index THEN index[key] ELSE {}

\* Hub.IsDeviceConnected on the hub's device index
DeviceConnected(d) ==
  d \in DOMAIN hub.deviceClients /\ Cardinality(hub.deviceClients[d]) > 0

\* Hub.IsUserConnected
IsUserConnected(u) ==
  u \in DOMAIN hub.userClients /\ Cardinality(hub.userClients[u]) > 0

\* registerClient's insertion into an index
Insert(index, key, s) == With(index, key, Bound(index, key) \cup {s})

DeleteKeepKey(index, key, s) ==
  IF key \in DOMAIN index THEN With(index, key, index[key] \ {s}) ELSE index

\* unregisterClient's removal from an index: the session, then the key when
\* no session is left under it
Delete(index, key, s) ==
  IF key \in DOMAIN index
  THEN IF index[key] \ {s} = {}
       THEN Without(index, key)
       ELSE With(index, key, index[key] \ {s})
  ELSE index

registerClientSkipsDevice(h, s, d, u) ==
  [h EXCEPT !.clients = @ \cup {s},
            !.userClients = IF u # "" THEN Insert(@, u, s) ELSE @]

\* Hub.registerClient
registerClient(h, s, d, u) ==
  [h EXCEPT !.clients = @ \cup {s},
            !.deviceClients = Insert(@, d, s),
            !.userClients = IF u # "" THEN Insert(@, u, s) ELSE @]

unregisterClientKeepsUser(h, s, d, u) ==
  [h EXCEPT !.clients = @ \ {s}, !.deviceClients = Delete(@, d, s)]

\* Hub.unregisterClient up to close(client.send)
unregisterClient(h, s, d, u) ==
  [h EXCEPT !.clients = @ \ {s},
            !.deviceClients = Delete(@, d, s),
            !.userClients = IF u # "" THEN Delete(@, u, s) ELSE @]

\* close(client.send) by the hub worker: a second close panics
CloseSend(h, alreadyClosed) ==
  IF alreadyClosed THEN [h EXCEPT !.run = "panicked"] ELSE h

WritePumpExitKeepsConn(r) == [r EXCEPT !.writer = "done"]

\* writePump's deferred c.conn.Close() as the pump returns
WritePumpExit(r) == [r EXCEPT !.writer = "done", !.conn = "closed"]

\* WebSocketManager.HandleConnection from NewClient on: m.hub.register <- client
\* taken by Hub.Run (registerClient), then go writePump and go readPump
RunRegister(s, d, u) ==
  /\ hub.run = "running"
  /\ sessions[s].st = "none"
  /\ hub' = registerClient(hub, s, d, u)
  /\ sessions' = [sessions EXCEPT ![s] = NewClient(d, u)]
  /\ UNCHANGED <<drops, lastPush>>
  /\ UNCHANGED <<storeVars, hubVars, procVars, svcVars, backoff, queue, now, evicted, dlqRetry>>

\* readPump: ReadMessage fails because the peer went away; the deferred
\* function starts with c.hub.unregister <- c
ReadPumpPeerError(s) ==
  /\ Alive
  /\ sessions[s].reader = "run"
  /\ sessions[s].conn = "open"
  /\ sessions' = [sessions EXCEPT ![s].reader = "unreg"]
  /\ UNCHANGED <<hub, drops, lastPush>>
  /\ UNCHANGED <<storeVars, hubVars, procVars, svcVars, backoff, queue, now, evicted, dlqRetry>>

\* readPump: ReadMessage fails because the connection was closed on this side
ReadPumpConnClosed(s) ==
  /\ Alive
  /\ sessions[s].reader = "run"
  /\ sessions[s].conn = "closed"
  /\ sessions' = [sessions EXCEPT ![s].reader = "unreg"]
  /\ UNCHANGED <<hub, drops, lastPush>>
  /\ UNCHANGED <<storeVars, hubVars, procVars, svcVars, backoff, queue, now, evicted, dlqRetry>>

\* Hub.Run: case client := <-h.unregister.  The sender is the session's
\* readPump (which goes on to close the connection) or one of the goroutines
\* a push to the full buffer started.
RunUnregister(s, fromReader) ==
  /\ hub.run = "running"
  /\ IF fromReader THEN sessions[s].reader = "unreg" ELSE drops[s] > 0
  /\ hub' = CloseSend(unregisterClient(hub, s, sessions[s].deviceID,
                                       sessions[s].userID),
                      sessions[s].closed)
  /\ sessions' = [sessions EXCEPT
                    ![s].closed = TRUE,
                    ![s].reader = IF fromReader THEN "done" ELSE @,
                    ![s].conn = IF fromReader THEN "closed" ELSE @]
  /\ drops' = IF fromReader THEN drops ELSE [drops EXCEPT ![s] = @ - 1]
  /\ UNCHANGED lastPush
  /\ UNCHANGED <<storeVars, hubVars, procVars, svcVars, backoff, queue, now, evicted, dlqRetry>>

\* writePump: a frame received from c.send.  Written together with every
\* queued frame, or, when NextWriter fails, dropped as the pump returns.
WritePumpSend(s, writeOk) ==
  /\ Alive
  /\ sessions[s].writer = "run"
  /\ sessions[s].send > 0
  /\ sessions' =
       [sessions EXCEPT ![s] =
          IF writeOk /\ sessions[s].conn = "open"
          THEN [@ EXCEPT !.send = 0, !.unwritten = FALSE]
          ELSE WritePumpExit([@ EXCEPT !.send = @ - 1])]
  /\ UNCHANGED <<hub, drops, lastPush>>
  /\ UNCHANGED <<storeVars, hubVars, procVars, svcVars, backoff, queue, now, evicted, dlqRetry>>

\* writePump: c.send is closed and empty; the close frame, then return
WritePumpClosed(s) ==
  /\ Alive
  /\ sessions[s].writer = "run"
  /\ sessions[s].send = 0
  /\ sessions[s].closed
  /\ sessions' =
       [sessions EXCEPT ![s] =
          WritePumpExit([@ EXCEPT !.closeFrame = (sessions[s].conn = "open")])]
  /\ UNCHANGED <<hub, drops, lastPush>>
  /\ UNCHANGED <<storeVars, hubVars, procVars, svcVars, backoff, queue, now, evicted, dlqRetry>>

\* writePump: the ping of the ticker fails
WritePumpPingError(s) ==
  /\ Alive
  /\ sessions[s].writer = "run"
  /\ sessions' = [sessions EXCEPT ![s] = WritePumpExit(@)]
  /\ UNCHANGED <<hub, drops, lastPush>>
  /\ UNCHANGED <<storeVars, hubVars, procVars, svcVars, backoff, queue, now, evicted, dlqRetry>>

\* the sessions of a set whose channel takes one more frame
HasRoom(S) == {s \in S : sessions[s].send < SendBufCap}

SentToNone(accepted) == FALSE

\* SendToDevice / SendToUser: sentToAny
SentToAny(accepted) == accepted # {}

\* the loop of Hub.SendToDevice and Hub.SendToUser over the sessions found
\* under a key: the non-blocking send, or a goroutine sending the session to
\* h.unregister (at most MaxDrops of them are counted)
PushTo(S) ==
  /\ Alive
  /\ sessions' =
       [s \in SessIds |->
          IF s \in HasRoom(S)
          THEN [sessions[s] EXCEPT !.send = @ + 1, !.unwritten = TRUE]
          ELSE sessions[s]]
  /\ drops' = [s \in SessIds |->
                 IF s \in S \ HasRoom(S) /\ drops[s] < MaxDrops
                 THEN drops[s] + 1 ELSE drops[s]]
  /\ lastPush' =
       [called |-> TRUE,
        bound |-> S,
        room |-> {s \in S : sessions[s].send < SendBufCap},
        accepted |-> {s \in SessIds : sessions'[s].send > sessions[s].send},
        result |-> SentToAny(HasRoom(S))]
  /\ UNCHANGED hub
  /\ UNCHANGED <<storeVars, hubVars, procVars, svcVars, backoff, queue, now, evicted, dlqRetry>>

\* Hub.SendToDevice
PushToDevice(d) == PushTo(Bound(hub.deviceClients, d))

\* Hub.SendToUser
PushToUser(u) == PushTo(Bound(hub.userClients, u))

RECURSIVE UnregisterAll(_, _)
\* unregisterClient for every session of a set
UnregisterAll(h, S) ==
  IF S = {} THEN h
  ELSE LET s == CHOOSE x \in S : TRUE
       IN UnregisterAll(unregisterClient(h, s, sessions[s].deviceID,
                                         sessions[s].userID), S \ {s})

\* Hub.BroadcastAll taken by Hub.Run: case message := <-h.broadcast
RunBroadcast ==
  /\ hub.run = "running"
  /\ hub.clients # {}
  /\ hub' = CloseSend(UnregisterAll(hub, hub.clients \ HasRoom(hub.clients)),
                      \E s \in hub.clients \ HasRoom(hub.clients) :
                        sessions[s].closed)
  /\ sessions' =
       [s \in SessIds |->
          IF s \in HasRoom(hub.clients)
          THEN [sessions[s] EXCEPT !.send = @ + 1, !.unwritten = TRUE]
          ELSE IF s \in hub.clients
               THEN [sessions[s] EXCEPT !.closed = TRUE]
               ELSE sessions[s]]
  /\ UNCHANGED <<drops, lastPush>>
  /\ UNCHANGED <<storeVars, hubVars, procVars, svcVars, backoff, queue, now, evicted, dlqRetry>>

\* Hub.Shutdown: close(h.shutdown), called once by gracefulShutdown
Shutdown ==
  /\ Alive
  /\ ~hub.shutdown
  /\ hub' = [hub EXCEPT !.shutdown = TRUE]
  /\ UNCHANGED <<sessions, drops, lastPush>>
  /\ UNCHANGED <<storeVars, hubVars, procVars, svcVars, backoff, queue, now, evicted, dlqRetry>>

\* Hub.Run: case <-h.shutdown.  For the first session of the range
\* unregisterClient closes client.send and the loop closes it again; with no
\* session registered the worker returns.
RunShutdown ==
  /\ hub.run = "running"
  /\ hub.shutdown
  /\ IF hub.clients = {}
     THEN /\ hub' = [hub EXCEPT !.run = "stopped"]
          /\ UNCHANGED sessions
     ELSE \E s \in hub.clients :
            /\ hub' = CloseSend(
                        CloseSend(unregisterClient(hub, s, sessions[s].deviceID,
                                                   sessions[s].userID),
                                  sessions[s].closed),
                        TRUE)
            /\ sessions' = [sessions EXCEPT ![s].closed = TRUE]
  /\ UNCHANGED <<drops, lastPush>>
  /\ UNCHANGED <<storeVars, hubVars, procVars, svcVars, backoff, queue, now, evicted, dlqRetry>>

(***************************************************************************)
(* The callers of the hub taken one send at a time.  SendToDevice and      *)
(* SendToUser read the inner map of their key under the index's mutex and  *)
(* range over it after releasing it, while Hub.Run deletes from it and     *)
(* closes channels: the range yields an entry deleted meanwhile or not, or *)
(* the runtime stops the process (concurrent map iteration and map write). *)
(* A send on a closed channel panics, and the panic of any goroutine ends  *)
(* the process, as the hub worker's does.                                  *)
(***************************************************************************)
\* the inner map the call in progress ranges over, as the hub holds it now
Ranged ==
  IF sender.index = "device" THEN Bound(hub.deviceClients, sender.key)
  ELSE Bound(hub.userClients, sender.key)

\* Client.Send and the select of SendToDevice / SendToUser on a session's
\* record: the non-blocking send on c.send
ChanSend(r) ==
  IF r.send < SendBufCap
  THEN [r EXCEPT !.send = @ + 1, !.unwritten = TRUE]
  ELSE r

\* Hub.SendToDevice, lines 143-150: the inner map is read, the lock released
SendToDeviceBegin(d) ==
  /\ Alive
  /\ sender.pc = "idle"
  /\ DeviceConnected(d)
  /\ sender' = [NoSend EXCEPT !.pc = "range", !.index = "device", !.key = d,
                              !.seen = Bound(hub.deviceClients, d)]
  /\ UNCHANGED <<sentClosed, statusCall, cleaner, idVars, baseVars, sessVars>>

\* Hub.SendToUser, lines 170-177
SendToUserBegin(u) ==
  /\ Alive
  /\ sender.pc = "idle"
  /\ IsUserConnected(u)
  /\ sender' = [NoSend EXCEPT !.pc = "range", !.index = "user", !.key = u,
                              !.seen = Bound(hub.userClients, u)]
  /\ UNCHANGED <<sentClosed, statusCall, cleaner, idVars, baseVars, sessVars>>

\* one turn of the range: the select on client.send for a session the range
\* yields: one that was in the map when the range began, or one inserted
\* into the same map since
SendNext(s) ==
  /\ Alive
  /\ sender.pc = "range"
  /\ s \notin sender.visited
  /\ \/ s \in sender.seen
     \/ s \in Ranged /\ sender.seen \cap Ranged # {}
  /\ IF sessions[s].closed
     THEN /\ sentClosed' = sentClosed \cup {s}
          /\ hub' = [hub EXCEPT !.run = "panicked"]
          /\ sender' = [sender EXCEPT !.visited = @ \cup {s}]
          /\ UNCHANGED <<sessions, drops>>
     ELSE /\ sessions' = [sessions EXCEPT ![s] = ChanSend(@)]
          /\ drops' = [drops EXCEPT ![s] =
                         IF sessions[s].send < SendBufCap \/ @ >= MaxDrops
                         THEN @ ELSE @ + 1]
          /\ sender' = [sender EXCEPT
                          !.visited = @ \cup {s},
                          !.sentToAny = @ \/ sessions[s].send < SendBufCap]
          /\ UNCHANGED <<hub, sentClosed>>
  /\ UNCHANGED <<lastPush, statusCall, cleaner, idVars, baseVars>>

\* the range ends: every session that stayed in the map has had its turn
SendDone ==
  /\ Alive
  /\ sender.pc = "range"
  /\ (sender.seen \cap Ranged) \subseteq sender.visited
  /\ sender' = [sender EXCEPT !.pc = "idle"]
  /\ UNCHANGED <<sentClosed, statusCall, cleaner, idVars, baseVars, sessVars>>

\* the range met a write of Hub.Run: the runtime's fatal error
SendFatal ==
  /\ Alive
  /\ sender.pc = "range"
  /\ sender.seen \ sender.visited # {}
  /\ sender.seen \cap Ranged # sender.seen
  /\ sender' = [sender EXCEPT !.pc = "fatal"]
  /\ hub' = [hub EXCEPT !.run = "panicked"]
  /\ UNCHANGED <<sessions, drops, lastPush>>
  /\ UNCHANGED <<sentClosed, statusCall, cleaner, idVars, baseVars>>

\* readPump: a "ping" message was read: ConnectionHandlerImpl.OnMessage
\* updates the last activity and answers with client.Send(pong)
OnMessagePing(s) ==
  /\ Alive
  /\ sessions[s].reader = "run"
  /\ sessions[s].conn = "open"
  /\ IF sessions[s].closed
     THEN /\ sentClosed' = sentClosed \cup {s}
          /\ hub' = [hub EXCEPT !.run = "panicked"]
          /\ sessions' = [sessions EXCEPT ![s].lastActivity = now]
     ELSE /\ sessions' = [sessions EXCEPT ![s] =
                             ChanSend([@ EXCEPT !.lastActivity = now])]
          /\ UNCHANGED <<hub, sentClosed>>
  /\ UNCHANGED <<drops, lastPush, sender, statusCall, cleaner, idVars, baseVars>>

(***************************************************************************)
(* ConnectionCleaner: the periodic sweep over the hub's sessions.  The     *)
(* sweep copies Hub.clients under a mutex of its own, which Hub.Run does   *)
(* not take: a range racing with an insertion or a deletion sees the entry *)
(* or not, or the runtime stops the process (concurrent map iteration and  *)
(* map write).  Hub.unregister is unbuffered: the sweep waits at each send *)
(* until Hub.Run receives.                                                 *)
(***************************************************************************)
\* ConnectionCleaner.inactivityTime, in clock readings
InactivityTime == 1

\* readPump: a message or a pong was read: c.lastActivity = time.Now()
ReadPumpMessage(s) ==
  /\ Alive
  /\ sessions[s].reader = "run"
  /\ sessions[s].conn = "open"
  /\ sessions[s].lastActivity # now
  /\ sessions' = [sessions EXCEPT ![s].lastActivity = now]
  /\ UNCHANGED <<hub, drops, lastPush>>
  /\ UNCHANGED <<storeVars, hubVars, procVars, svcVars, backoff, queue, now, evicted, dlqRetry>>

InactiveAll(snapshot, read, threshold) == snapshot

\* the sessions of the copy with GetLastActivity().Before(inactiveThreshold)
Inactive(snapshot, read, threshold) == {s \in snapshot : read[s] < threshold}

\* the copies a range over Hub.clients can make while it goes from seen to
\* current
Copies(seen, current) ==
  {S \in SUBSET (seen \cup current) : (seen \cap current) \subseteq S}

\* cleanInactiveConnections: now, inactiveThreshold, the range begins
CleanBegin ==
  /\ Alive
  /\ cleaner.pc = "idle"
  /\ cleaner' = [NoSweep EXCEPT !.pc = "copy",
                                !.threshold = now - InactivityTime,
                                !.seen = hub.clients]
  /\ UNCHANGED <<baseVars, sessVars, ghostVars, idVars>>

\* cleanInactiveConnections: the range ends, the loop over clientsCopy
CleanCheck ==
  /\ Alive
  /\ cleaner.pc = "copy"
  /\ \E snapshot \in Copies(cleaner.seen, hub.clients) :
       LET read == [s \in SessIds |-> sessions[s].lastActivity]
       IN cleaner' = [cleaner EXCEPT
                        !.pc = "send",
                        !.snapshot = snapshot,
                        !.read = read,
                        !.inactive = Inactive(snapshot, read, cleaner.threshold)]
  /\ UNCHANGED <<baseVars, sessVars, ghostVars, idVars>>

\* the range met a write of Hub.Run: the runtime's fatal error ends the
\* process
CleanFatal ==
  /\ Alive
  /\ cleaner.pc = "copy"
  /\ cleaner.seen # hub.clients
  /\ cleaner' = [cleaner EXCEPT !.pc = "fatal"]
  /\ hub' = [hub EXCEPT !.run = "panicked"]
  /\ UNCHANGED <<sessions, drops, lastPush>>
  /\ UNCHANGED <<baseVars, ghostVars, idVars>>

\* cleanInactiveConnections: c.hub.unregister <- client, reached
CleanOffer(s) ==
  /\ Alive
  /\ cleaner.pc = "send"
  /\ cleaner.offer = {}
  /\ s \in cleaner.inactive \ cleaner.sent
  /\ cleaner' = [cleaner EXCEPT !.offer = {s}, !.sent = @ \cup {s}]
  /\ UNCHANGED <<baseVars, sessVars, ghostVars, idVars>>

\* Hub.Run: case client := <-h.unregister, the sender being the sweep
RunUnregisterCleaner(s) ==
  /\ hub.run = "running"
  /\ cleaner.offer = {s}
  /\ hub' = CloseSend(unregisterClient(hub, s, sessions[s].deviceID,
                                       sessions[s].userID),
                      sessions[s].closed)
  /\ sessions' = [sessions EXCEPT ![s].closed = TRUE]
  /\ cleaner' = [cleaner EXCEPT !.offer = {}]
  /\ UNCHANGED <<drops, lastPush>>
  /\ UNCHANGED <<baseVars, ghostVars, idVars>>

\* cleanInactiveConnections returns
CleanDone ==
  /\ Alive
  /\ cleaner.pc = "send"
  /\ cleaner.offer = {}
  /\ cleaner.inactive \subseteq cleaner.sent
  /\ cleaner' = [cleaner EXCEPT !.pc = "idle", !.swept = TRUE]
  /\ UNCHANGED <<baseVars, sessVars, ghostVars, idVars>>

(***************************************************************************)
(* Channel tokens in detail: the handlers that store a device's token      *)
(* (DeviceHandler.UpdateToken, SyncTokens, UpdateAPNSToken,                *)
(* UpdateFCMToken and the gRPC UpdateDeviceToken) all call                 *)
(* TokenService.SaveToken, which inserts a row.  The table has a primary   *)
(* key on id only.                                                         *)
(***************************************************************************)
TokenTypes == {TokenTypeWebSocket, TokenTypeAPNS, TokenTypeFCM}

\* the token values a device presents
TokenValues == {"a", "b"}

\* the 30 days of NewNotificationToken, in clock readings
TokenLifetime == 2

\* entity.NewNotificationToken
NewNotificationToken(d, v, tokenType) ==
  [device_id |-> d, token |-> v, token_type |-> tokenType, created_at |-> now,
   expires_at |-> now + TokenLifetime, is_active |-> TRUE, is_revoked |-> FALSE]

\* TokenRepository.Create: the INSERT
TokenCreate(rows, token) == Append(rows, token)

\* TokenService.SaveToken; createOk is the statement's success
SaveToken(rows, d, v, tokenType, createOk) ==
  IF createOk THEN TokenCreate(rows, NewNotificationToken(d, v, tokenType)) ELSE rows

\* the rows the queries of TokenRepository select for a device and a type:
\* is_active, not is_revoked, expires_at > now
ActiveTokens(d, tokenType) ==
  {i \in DOMAIN notification_tokens :
     /\ notification_tokens[i].device_id = d
     /\ notification_tokens[i].token_type = tokenType
     /\ notification_tokens[i].is_active
     /\ ~notification_tokens[i].is_revoked
     /\ notification_tokens[i].expires_at > now}

\* DeviceHandler.UpdateToken and NotificationServer.UpdateDeviceToken
UpdateToken(d, v, tokenType, createOk) ==
  /\ Len(notification_tokens) < MaxTokenRows
  /\ notification_tokens' = SaveToken(notification_tokens, d, v, tokenType, createOk)
  /\ tokens' = IF createOk THEN tokens \cup {<<d, tokenType>>} ELSE tokens
  /\ UNCHANGED <<devices, notifications, delivery_tracking, hubVars, procVars,
                 backoff, queue, now, evicted, dlqRetry, sessVars, ghostVars, cleaner,
                 devVars>>

\* DeviceHandler.SyncTokens: the types of given carry a token; those of
\* failed meet a failing INSERT, which the handler passes over
SyncTokens(d, v, given, failed, authOk) ==
  /\ Len(notification_tokens) + Cardinality(given \ failed) <= MaxTokenRows
  /\ LET saved(rows, tokenType) ==
           IF tokenType \in given
           THEN SaveToken(rows, d, v, tokenType, tokenType \notin failed)
           ELSE rows
     IN notification_tokens' =
          IF authOk
          THEN saved(saved(saved(notification_tokens, TokenTypeWebSocket),
                           TokenTypeFCM),
                     TokenTypeAPNS)
          ELSE notification_tokens
  /\ tokens' = IF authOk
               THEN tokens \cup {<<d, tokenType>> : tokenType \in given \ failed}
               ELSE tokens
  /\ UNCHANGED <<devices, notifications, delivery_tracking, hubVars, procVars,
                 backoff, queue, now, evicted, dlqRetry, sessVars, ghostVars, cleaner,
                 devVars>>

\* UpdateAPNSToken and UpdateFCMToken: an auth_token is verified when given
UpdateChannelToken(d, v, tokenType, auth, createOk) ==
  /\ Len(notification_tokens) < MaxTokenRows
  /\ notification_tokens' =
       IF auth # "invalid"
       THEN SaveToken(notification_tokens, d, v, tokenType, createOk)
       ELSE notification_tokens
  /\ tokens' = IF auth # "invalid" /\ createOk
               THEN tokens \cup {<<d, tokenType>>} ELSE tokens
  /\ UNCHANGED <<devices, notifications, delivery_tracking, hubVars, procVars,
                 backoff, queue, now, evicted, dlqRetry, sessVars, ghostVars, cleaner,
                 devVars>>

\* DeviceHandler.UpdateAPNSToken
UpdateAPNSToken(d, v, auth, createOk) ==
  UpdateChannelToken(d, v, TokenTypeAPNS, auth, createOk)

\* DeviceHandler.UpdateFCMToken
UpdateFCMToken(d, v, auth, createOk) ==
  UpdateChannelToken(d, v, TokenTypeFCM, auth, createOk)

(***************************************************************************)
(* Devices in detail: the devices table as DeviceService reads and writes  *)
(* it.  A row's index is its id; the table has a primary key on id and a   *)
(* plain index on device_identifier.  A registration is two statements:    *)
(* the lookup by device_identifier, then the UPDATE or the INSERT.         *)
(***************************************************************************)
\* the error values: each is one value of its package
NoError == [pkg |-> "", message |-> ""]
RepositoryErrDeviceNotFound == [pkg |-> "repository", message |-> "device not found"]
UsecaseErrDeviceNotFound == [pkg |-> "usecase", message |-> "device not found"]
ErrDatabase == [pkg |-> "sql", message |-> "connection refused"]

ErrorsIsByMessage(err, target) == err.message = target.message

\* errors.Is for error values with neither Is nor Unwrap: the same value
ErrorsIs(err, target) == err = target

\* DeviceRepository.GetByDeviceIdentifier: the rows its query selects (no
\* filter on delete_time); QueryRow takes the first the database yields
GetByDeviceIdentifier(rows, identifier) ==
  {i \in DOMAIN rows : rows[i].device_identifier = identifier}

\* DeviceRepository.Update: user_id and device_identifier of the row with
\* that id, as read; delete_time is not in the SET list
DeviceUpdate(rows, id, device) ==
  [rows EXCEPT ![id] = [@ EXCEPT !.user_id = device.user_id,
                                 !.device_identifier = device.device_identifier]]

\* DeviceRepository.Save: the INSERT
DeviceSave(rows, device) == Append(rows, device)

\* Device.LinkToUser
LinkToUser(device, userID) == [device EXCEPT !.user_id = userID]

\* RegisterDeviceWithoutUser (userID = NoUser) and RegisterDeviceWithUser up
\* to the statement that stores the device; queryOk is the lookup's success
RegisterLookup(r, identifier, userID, queryOk) ==
  /\ regs[r].pc \in {"idle", "done"}
  /\ LET found == GetByDeviceIdentifier(device_rows, identifier)
         err == IF ~queryOk THEN ErrDatabase
                ELSE IF found = {} THEN RepositoryErrDeviceNotFound
                ELSE NoError
         call == [RegIdle EXCEPT !.identifier = identifier, !.user = userID,
                                 !.known = (found # {})]
     IN IF err # NoError /\ ~ErrorsIs(err, UsecaseErrDeviceNotFound)
        THEN regs' = [regs EXCEPT ![r] = [call EXCEPT !.pc = "done", !.result = "error"]]
        ELSE IF err = NoError
        THEN \E i \in found :
               regs' = [regs EXCEPT ![r] =
                          [call EXCEPT
                             !.pc = "update",
                             !.existing = i,
                             !.device = IF userID # NoUser
                                        THEN LinkToUser(device_rows[i], userID)
                                        ELSE device_rows[i]]]
        ELSE regs' = [regs EXCEPT ![r] =
                        [call EXCEPT !.pc = "save",
                                     !.device = NewDevice(identifier, userID)]]
  /\ UNCHANGED <<device_rows, link, renew>>
  /\ UNCHANGED <<baseVars, sessVars, ghostVars, cleaner, tokVars>>

\* the registration's second statement: deviceRepo.Update of the device
\* found, or deviceRepo.Save of the new one
RegisterStore(r, execOk) ==
  /\ regs[r].pc \in {"update", "save"}
  /\ regs[r].pc = "save" => Len(device_rows) < MaxDeviceRows
  /\ device_rows' =
       IF ~execOk THEN device_rows
       ELSE IF regs[r].pc = "update"
       THEN DeviceUpdate(device_rows, regs[r].existing, regs[r].device)
       ELSE DeviceSave(device_rows, regs[r].device)
  /\ regs' = [regs EXCEPT ![r] =
                [@ EXCEPT !.pc = "done",
                          !.result = IF execOk THEN "ok" ELSE "error",
                          !.returned = IF ~execOk THEN 0
                                       ELSE IF regs[r].pc = "update"
                                       THEN regs[r].existing
                                       ELSE Len(device_rows) + 1,
                          !.created = execOk /\ regs[r].pc = "save"]]
  /\ UNCHANGED <<link, renew>>
  /\ UNCHANGED <<baseVars, sessVars, ghostVars, cleaner, tokVars>>

\* DeviceRepository.Delete: the tombstone
DeviceDelete(id) ==
  /\ id \in DOMAIN device_rows
  /\ ~device_rows[id].deleted
  /\ device_rows' = [device_rows EXCEPT ![id].deleted = TRUE]
  /\ UNCHANGED <<regs, link, renew>>
  /\ UNCHANGED <<baseVars, sessVars, ghostVars, cleaner, tokVars>>

(***************************************************************************)
(* Credentials.  A credential is a JWT: header, payload and signature      *)
(* joined by dots.  The payload is the claims marshalled to JSON (omitempty *)
(* drops the empty fields) and encoded in unpadded URL-safe base64.  The   *)
(* JSON text is kept as a sequence of bytes, one for a key and one for its *)
(* value; the base64 text as a sequence of six-bit symbols, 64 standing    *)
(* for "=".                                                                *)
(***************************************************************************)
\* cfg.JWT.TokenExpiry and cfg.JWT.TemporaryTokenExpiry, in clock readings
TokenExpiry == 2
TempExpiry == 1

\* the device_identifier values devices present
DeviceIdentifiers == {"i1", "i2"}

\* uuid.UUID.String of a row id
IdStrings == <<"u1", "u2", "u3", "u4", "u5">>
IdString(id) == IdStrings[id]

\* the bytes the strings of the claims are written with
StringCodes ==
  ("?" :> 0) @@ ("i1" :> 1) @@ ("i2" :> 2) @@ ("1" :> 11) @@ ("2" :> 12) @@
  ("u1" :> 21) @@ ("u2" :> 22) @@ ("u3" :> 23) @@ ("u4" :> 24) @@ ("u5" :> 25)

\* the bytes the keys of the claims are written with, in the order of the
\* fields of Claims
KeyCodes ==
  ("device_id" :> 101) @@ ("device_identifier" :> 102) @@ ("user_id" :> 103) @@
  ("temp" :> 104) @@ ("exp" :> 105) @@ ("iat" :> 106)

\* the string a value byte stands for
StringOf(code) ==
  IF \E s \in DOMAIN StringCodes : StringCodes[s] = code
  THEN CHOOSE s \in DOMAIN StringCodes : StringCodes[s] = code
  ELSE "?"

KeyOf(code) == CHOOSE k \in DOMAIN KeyCodes : KeyCodes[k] = code

\* the claims of no credential
NoClaims ==
  [device_id |-> "", device_identifier |-> "", user_id |-> "", temp |-> FALSE,
   exp |-> 0, iat |-> 0]

\* json.Marshal of Claims: a field tagged omitempty is written when it is
\* not empty
Marshal(claims) ==
  (IF claims.device_id # ""
   THEN <<KeyCodes["device_id"], StringCodes[claims.device_id]>> ELSE << >>) \o
  (IF claims.device_identifier # ""
   THEN <<KeyCodes["device_identifier"], StringCodes[claims.device_identifier]>>
   ELSE << >>) \o
  (IF claims.user_id # ""
   THEN <<KeyCodes["user_id"], StringCodes[claims.user_id]>> ELSE << >>) \o
  (IF claims.temp THEN <<KeyCodes["temp"], 1>> ELSE << >>) \o
  <<KeyCodes["exp"], claims.exp, KeyCodes["iat"], claims.iat>>

RECURSIVE Unmarshal(_)
\* json.Unmarshal into a map: the keys and the bytes of their values
Unmarshal(bytes) ==
  IF bytes = << >> THEN [ok |-> TRUE, fields |-> << >>]
  ELSE IF Len(bytes) < 2 \/ ~(\E k \in DOMAIN KeyCodes : KeyCodes[k] = bytes[1])
  THEN [ok |-> FALSE, fields |-> << >>]
  ELSE LET rest == Unmarshal(SubSeq(bytes, 3, Len(bytes)))
       IN IF ~rest.ok THEN rest
          ELSE [ok |-> TRUE,
                fields |-> IF KeyOf(bytes[1]) \in DOMAIN rest.fields
                           THEN rest.fields
                           ELSE With(rest.fields, KeyOf(bytes[1]), bytes[2])]

\* the string under a key of the map, "" when the key is absent
Field(fields, key) ==
  IF key \in DOMAIN fields THEN StringOf(fields[key]) ELSE ""

\* json.Unmarshal into Claims
ClaimsFrom(fields) ==
  [device_id |-> Field(fields, "device_id"),
   device_identifier |-> Field(fields, "device_identifier"),
   user_id |-> Field(fields, "user_id"),
   temp |-> ("temp" \in DOMAIN fields /\ fields["temp"] = 1),
   exp |-> IF "exp" \in DOMAIN fields THEN fields["exp"] ELSE 0,
   iat |-> IF "iat" \in DOMAIN fields THEN fields["iat"] ELSE 0]

\* the padding symbol
Pad == 64

RECURSIVE EncodeSegment(_)
\* base64.RawURLEncoding: three bytes to four symbols, no padding
EncodeSegment(bytes) ==
  IF Len(bytes) = 0 THEN << >>
  ELSE IF Len(bytes) = 1
  THEN <<bytes[1] \div 4, (bytes[1] % 4) * 16>>
  ELSE IF Len(bytes) = 2
  THEN <<bytes[1] \div 4, (bytes[1] % 4) * 16 + bytes[2] \div 16,
         (bytes[2] % 16) * 4>>
  ELSE <<bytes[1] \div 4, (bytes[1] % 4) * 16 + bytes[2] \div 16,
         (bytes[2] % 16) * 4 + bytes[3] \div 64, bytes[3] % 64>>
       \o EncodeSegment(SubSeq(bytes, 4, Len(bytes)))

RECURSIVE DecodeString(_)
\* base64.URLEncoding.DecodeString: groups of four symbols, padding only
\* at the end of the last group
DecodeString(symbols) ==
  IF Len(symbols) = 0 THEN [ok |-> TRUE, bytes |-> << >>]
  ELSE IF Len(symbols) < 4 \/ symbols[1] = Pad \/ symbols[2] = Pad
  THEN [ok |-> FALSE, bytes |-> << >>]
  ELSE LET b1 == symbols[1] * 4 + symbols[2] \div 16
           b2 == (symbols[2] % 16) * 16 + symbols[3] \div 4
           b3 == (symbols[3] % 4) * 64 + symbols[4]
       IN IF symbols[3] = Pad
          THEN [ok |-> Len(symbols) = 4 /\ symbols[4] = Pad, bytes |-> <<b1>>]
          ELSE IF symbols[4] = Pad
          THEN [ok |-> Len(symbols) = 4, bytes |-> <<b1, b2>>]
          ELSE LET rest == DecodeString(SubSeq(symbols, 5, Len(symbols)))
               IN [ok |-> rest.ok, bytes |-> <<b1, b2, b3>> \o rest.bytes]

DecodeBase64URLUnpadded(encoded) == DecodeString(encoded)

\* utils.DecodeBase64URL: the padding is restored, then URLEncoding decodes
DecodeBase64URL(encoded) ==
  DecodeString(encoded \o [i \in 1..((4 - (Len(encoded) % 4)) % 4) |-> Pad])

\* jwt.NewWithClaims(...).SignedString(s.jwtSecret)
SignedString(claims) ==
  [empty |-> FALSE, parts |-> 3, payload |-> EncodeSegment(Marshal(claims)),
   signed |-> TRUE]

\* the token with another signature part
Forged(token) == [token EXCEPT !.signed = FALSE]

\* the claims GenerateTemporaryToken builds at the clock reading iat
TemporaryClaims(deviceIdentifier, iat) ==
  [NoClaims EXCEPT !.device_identifier = deviceIdentifier,
                   !.temp = TRUE,
                   !.exp = iat + TempExpiry,
                   !.iat = iat]

\* the claims GeneratePermanentToken builds at the clock reading iat; the
\* device is the row read by id
PermanentClaims(userID, deviceID, iat) ==
  [NoClaims EXCEPT !.device_id = IdString(deviceID),
                   !.device_identifier = device_rows[deviceID].device_identifier,
                   !.user_id = userID,
                   !.exp = iat + TokenExpiry,
                   !.iat = iat]

\* TokenService.GenerateTemporaryToken
GenerateTemporaryToken(deviceIdentifier) ==
  SignedString(TemporaryClaims(deviceIdentifier, now))

\* TokenService.GeneratePermanentToken
GeneratePermanentToken(userID, deviceID) ==
  SignedString(PermanentClaims(userID, deviceID, now))

\* the credentials the authority can have issued by now
IssuedTokens ==
  {SignedString(TemporaryClaims(i, t)) : i \in DeviceIdentifiers, t \in 0..now} \cup
  {SignedString(PermanentClaims(u, d, t)) :
     u \in UserIds, d \in DOMAIN device_rows, t \in 0..now}

\* the token strings a request can carry: none, an issued credential, or
\* one with a signature the secret did not make
PresentedTokens == {NoToken} \cup IssuedTokens \cup {Forged(t) : t \in IssuedTokens}

\* jwt.DecodeSegment: base64.RawURLEncoding.DecodeString
DecodeSegment(seg) ==
  IF \E i \in DOMAIN seg : seg[i] = Pad
  THEN [ok |-> FALSE, bytes |-> << >>]
  ELSE DecodeString(seg \o [i \in 1..((4 - (Len(seg) % 4)) % 4) |-> Pad])

\* jwt.ParseWithClaims up to the claims: three parts, the payload decoded
\* and unmarshalled
ParseUnverified(token) ==
  LET decoded == DecodeSegment(token.payload)
      parsed == Unmarshal(decoded.bytes)
  IN IF token.parts = 3 /\ decoded.ok /\ parsed.ok
     THEN [ok |-> TRUE, claims |-> ClaimsFrom(parsed.fields)]
     ELSE [ok |-> FALSE, claims |-> NoClaims]

\* TokenService.VerifyToken: err is "" for a token that parses, is signed
\* with the secret and has now before exp; claims are returned with no error
\* only
VerifyToken(token) ==
  LET parsed == ParseUnverified(token)
  IN IF ~parsed.ok \/ ~token.signed
     THEN [err |-> "invalid token", nil |-> TRUE, claims |-> NoClaims]
     ELSE IF ~(now < parsed.claims.exp)
     THEN [err |-> "token has expired", nil |-> TRUE, claims |-> NoClaims]
     ELSE [err |-> "", nil |-> FALSE, claims |-> parsed.claims]

\* TokenService.VerifyTemporaryToken
VerifyTemporaryToken(token, deviceIdentifier) ==
  LET verified == VerifyToken(token)
  IN /\ verified.err = ""
     /\ verified.claims.temp
     /\ verified.claims.device_identifier = deviceIdentifier

\* the row id a uuid text stands for, 0 when uuid.Parse fails
UuidParse(text) ==
  IF \E id \in DOMAIN IdStrings : IdStrings[id] = text
  THEN CHOOSE id \in DOMAIN IdStrings : IdStrings[id] = text
  ELSE 0

\* TokenService.ExtractDeviceIdentifierFromToken
ExtractDeviceIdentifierFromToken(token) ==
  LET decoded == DecodeBase64URL(token.payload)
      parsed == Unmarshal(decoded.bytes)
      deviceIdentifier == Field(parsed.fields, "device_identifier")
      deviceID == UuidParse(Field(parsed.fields, "device_id"))
  IN IF token.parts # 3 \/ ~decoded.ok \/ ~parsed.ok
     THEN [ok |-> FALSE, deviceIdentifier |-> ""]
     ELSE IF deviceIdentifier # ""
     THEN [ok |-> TRUE, deviceIdentifier |-> deviceIdentifier]
     ELSE IF deviceID \in DOMAIN device_rows
     THEN [ok |-> TRUE, deviceIdentifier |-> device_rows[deviceID].device_identifier]
     ELSE [ok |-> FALSE, deviceIdentifier |-> ""]

\* the user of a row, NoUser when there is no such row
UserOf(rows, id) == IF id \in DOMAIN rows THEN rows[id].user_id ELSE NoUser

\* DeviceService.LinkDeviceToUser: GetByID, Device.LinkToUser, Update
ServiceLinkDeviceToUser(rows, deviceID, userID) ==
  DeviceUpdate(rows, deviceID, LinkToUser(rows[deviceID], userID))

\* the check of NotificationServer.LinkDeviceToUser: the token verifies as a
\* temporary credential of the device_identifier of the device read
AcceptableForLink(token, deviceID) ==
  /\ deviceID \in DOMAIN device_rows
  /\ VerifyTemporaryToken(token, device_rows[deviceID].device_identifier)

\* a link request as it arrives
LinkCall(via, deviceID, userID, token) ==
  [NoLink EXCEPT !.called = TRUE, !.via = via, !.device_id = deviceID,
                 !.user = userID, !.token = token,
                 !.before = UserOf(device_rows, deviceID),
                 !.acceptable = AcceptableForLink(token, deviceID)]

\* the link of a device that passed the handler's checks: the service call,
\* then GeneratePermanentToken
LinkAndIssue(via, deviceID, userID, token, updateOk) ==
  IF deviceID \notin DOMAIN device_rows \/ ~updateOk
  THEN /\ link' = [LinkCall(via, deviceID, userID, token) EXCEPT !.result = "error"]
       /\ UNCHANGED device_rows
  ELSE /\ device_rows' = ServiceLinkDeviceToUser(device_rows, deviceID, userID)
       /\ link' = [LinkCall(via, deviceID, userID, token) EXCEPT
                     !.result = "ok",
                     !.issued = GeneratePermanentToken(userID, deviceID)]

\* the rejection of a link request
LinkRejected(via, deviceID, userID, token, result) ==
  /\ link' = [LinkCall(via, deviceID, userID, token) EXCEPT !.result = result]
  /\ UNCHANGED device_rows

\* DeviceHandler.LinkDeviceToUser: a token, when given, is verified against
\* the request's device_id
HandlerLinkDeviceToUser(deviceID, userID, token, updateOk) ==
  /\ IF ~token.empty /\ ~VerifyTemporaryToken(token, IdString(deviceID))
     THEN LinkRejected("http", deviceID, userID, token, "unauthorized")
     ELSE LinkAndIssue("http", deviceID, userID, token, updateOk)
  /\ UNCHANGED <<regs, renew>>
  /\ UNCHANGED <<baseVars, sessVars, ghostVars, cleaner, tokVars>>

\* NotificationServer.LinkDeviceToUser: the token is required and verified
\* against the device_identifier of the device read
ServerLinkDeviceToUser(deviceID, userID, token, updateOk) ==
  /\ IF token.empty
     THEN LinkRejected("grpc", deviceID, userID, token, "invalid argument")
     ELSE IF deviceID \notin DOMAIN device_rows
     THEN LinkRejected("grpc", deviceID, userID, token, "error")
     ELSE IF ~VerifyTemporaryToken(token, device_rows[deviceID].device_identifier)
     THEN LinkRejected("grpc", deviceID, userID, token, "unauthorized")
     ELSE LinkAndIssue("grpc", deviceID, userID, token, updateOk)
  /\ UNCHANGED <<regs, renew>>
  /\ UNCHANGED <<baseVars, sessVars, ghostVars, cleaner, tokVars>>

\* DeviceHandler.RenewToken for a request that carries a token
RenewToken(token, forceTemporary) ==
  /\ ~token.empty
  /\ LET verified == VerifyToken(token)
         extracted == ExtractDeviceIdentifierFromToken(token)
         deviceID == UuidParse(verified.claims.device_id)
         call == [NoRenew EXCEPT !.called = TRUE, !.via = "http", !.token = token,
                                 !.force = forceTemporary,
                                 !.err = verified.err,
                                 !.recovered = extracted.ok,
                                 !.identifier = extracted.deviceIdentifier]
     IN renew' =
          IF verified.err = ""
          THEN [call EXCEPT !.result = "ok",
                            !.token_type = IF verified.claims.temp
                                           THEN "temporary" ELSE "permanent",
                            !.issued = token]
          ELSE IF ~extracted.ok
          THEN [call EXCEPT !.result = "unauthorized"]
          ELSE IF forceTemporary \/ verified.nil \/ verified.claims.user_id = ""
          THEN [call EXCEPT !.result = "ok", !.token_type = "temporary",
                            !.issued = GenerateTemporaryToken(extracted.deviceIdentifier)]
          ELSE IF ~verified.nil /\ verified.claims.user_id # ""
                  /\ verified.claims.device_id # ""
          THEN IF deviceID \in DOMAIN device_rows
               THEN [call EXCEPT !.result = "ok", !.token_type = "permanent",
                                 !.issued = GeneratePermanentToken(
                                              verified.claims.user_id, deviceID)]
               ELSE [call EXCEPT !.result = "error"]
          ELSE [call EXCEPT !.result = "cannot renew"]
  /\ UNCHANGED <<device_rows, regs, link>>
  /\ UNCHANGED <<baseVars, sessVars, ghostVars, cleaner, tokVars>>

\* ConnectionHandlerImpl.OnMessage, case "token_refresh", for a session with
\* the given device_identifier, user and device
TokenRefresh(token, clientIdentifier, clientUserID, clientDeviceID) ==
  /\ ~token.empty
  /\ LET verified == VerifyToken(token)
         extracted == ExtractDeviceIdentifierFromToken(token)
         call == [NoRenew EXCEPT !.called = TRUE, !.via = "ws", !.token = token,
                                 !.err = verified.err,
                                 !.recovered =
                                   /\ extracted.ok
                                   /\ extracted.deviceIdentifier = clientIdentifier,
                                 !.identifier = extracted.deviceIdentifier]
     IN renew' =
          IF verified.err # "token has expired"
             \/ ~extracted.ok
             \/ extracted.deviceIdentifier # clientIdentifier
          THEN [call EXCEPT !.result = "none"]
          ELSE IF ~verified.nil /\ verified.claims.temp
          THEN [call EXCEPT !.result = "ok", !.token_type = "temporary",
                            !.issued = GenerateTemporaryToken(clientIdentifier)]
          ELSE IF clientUserID # "" /\ clientDeviceID \in DOMAIN device_rows
          THEN [call EXCEPT !.result = "ok", !.token_type = "permanent",
                            !.issued = GeneratePermanentToken(clientUserID,
                                                              clientDeviceID)]
          ELSE [call EXCEPT !.result = "none"]
  /\ UNCHANGED <<device_rows, regs, link>>
  /\ UNCHANGED <<baseVars, sessVars, ghostVars, cleaner, tokVars>>

\* WebSocketManager.HandleConnection up to the end of the token check: a
\* token that verifies lets the upgrade go on; an expired one whose
\* device_identifier can be extracted is answered 401 with a new temporary
\* token; any other is answered 401 "Invalid token"
HandleConnectionToken(token) ==
  /\ ~token.empty
  /\ LET verified == VerifyToken(token)
         extracted == ExtractDeviceIdentifierFromToken(token)
         call == [NoRenew EXCEPT !.called = TRUE, !.via = "handshake",
                                 !.token = token,
                                 !.err = verified.err,
                                 !.recovered = extracted.ok,
                                 !.identifier = extracted.deviceIdentifier]
     IN renew' =
          IF verified.err = ""
          THEN [call EXCEPT !.result = "upgrade"]
          ELSE IF verified.err = "token has expired" /\ extracted.ok
          THEN [call EXCEPT !.result = "token_expired", !.token_type = "temporary",
                            !.issued = GenerateTemporaryToken(extracted.deviceIdentifier)]
          ELSE [call EXCEPT !.result = "unauthorized"]
  /\ UNCHANGED <<device_rows, regs, link>>
  /\ UNCHANGED <<baseVars, sessVars, ghostVars, cleaner, tokVars>>

\* the recovery path alone: ExtractDeviceIdentifierFromToken applied to a
\* token string
ExtractIdentifier(token) ==
  /\ LET extracted == ExtractDeviceIdentifierFromToken(token)
     IN renew' = [NoRenew EXCEPT !.called = TRUE, !.via = "extract",
                                 !.token = token,
                                 !.recovered = extracted.ok,
                                 !.identifier = extracted.deviceIdentifier]
  /\ UNCHANGED <<device_rows, regs, link>>
  /\ UNCHANGED <<baseVars, sessVars, ghostVars, cleaner, tokVars>>

(***************************************************************************)
(* DeliveryService.UpdateStatus.  Nothing in the service calls it; it is   *)
(* the guarded way to change a row's status.                               *)
(***************************************************************************)
\* isValidStatusTransition
isValidStatusTransition(from, to) ==
  IF from = DeliveryStatusPending THEN TRUE
  ELSE IF from = DeliveryStatusSent
  THEN to = DeliveryStatusDelivered \/ to = DeliveryStatusFailed
  ELSE IF from = DeliveryStatusDelivered THEN FALSE
  ELSE IF from = DeliveryStatusFailed THEN to = DeliveryStatusPending
  ELSE IF from = DeliveryStatusExpired THEN FALSE
  ELSE FALSE

\* DeliveryService.UpdateStatus: GetByID, isValidStatusTransition,
\* DeliveryRepository.UpdateStatus
ServiceUpdateStatus(deliveryID, status, getOk, execOk) ==
  /\ LET found == getOk /\ deliveryID \in DOMAIN delivery_tracking
         from == IF found THEN delivery_tracking[deliveryID].status ELSE ""
         call == [NoStatusCall EXCEPT !.called = TRUE, !.id = deliveryID,
                                      !.found = found, !.from = from,
                                      !.to = status, !.after = from]
     IN IF ~found
        THEN /\ statusCall' = [call EXCEPT !.result = "delivery record not found"]
             /\ UNCHANGED delivery_tracking
        ELSE IF ~isValidStatusTransition(from, status)
        THEN /\ statusCall' = [call EXCEPT !.result = "invalid delivery status"]
             /\ UNCHANGED delivery_tracking
        ELSE IF ~execOk
        THEN /\ statusCall' = [call EXCEPT !.result = "failed to update delivery record"]
             /\ UNCHANGED delivery_tracking
        ELSE /\ delivery_tracking' = UpdateStatus(delivery_tracking, deliveryID, status)
             /\ statusCall' = [call EXCEPT !.result = "ok", !.after = status]
  /\ UNCHANGED <<devices, tokens, notifications, hubVars, procVars, backoff, queue,
                 now, evicted, dlqRetry, sessVars, cleaner, idVars, callVars>>

(***************************************************************************)
(* NotificationService.ResendFailedNotifications.  No submission path of   *)
(* the HTTP handlers sets ExpiresAt, so Notification.IsExpired() is false  *)
(* for every notification the sweep reads.                                 *)
(***************************************************************************)
ResendFailedNotifications ==
  /\ resend.pc = "idle"
  /\ GetPendingForRetry(delivery_tracking, MaxRetries) # {}
  /\ resend' = [pc |-> "run",
                queue |-> GetPendingForRetry(delivery_tracking, MaxRetries)]
  /\ UNCHANGED <<storeVars, hubVars, sub, acks, tasks, execs, dlq, extVars>>

\* one iteration of the sweep's loop, on a row of its snapshot
ResendDelivery(id, getOk) ==
  /\ resend.pc = "run"
  /\ id \in resend.queue
  /\ resend' = IF resend.queue = {id} THEN ResendIdle
               ELSE [resend EXCEPT !.queue = @ \ {id}]
  /\ IF ~getOk
     THEN UNCHANGED <<delivery_tracking, hubVars>>
     ELSE IF delivery_tracking[id].channel = TokenTypeWebSocket
          THEN IF IsDeviceConnected(delivery_tracking[id].device_id)
               THEN /\ SendToDeviceEffect(delivery_tracking[id].device_id,
                                          delivery_tracking[id].notification_id)
                    /\ delivery_tracking' =
                         IF SendToDevice(delivery_tracking[id].device_id)
                         THEN MarkAsSent(delivery_tracking, id)
                         ELSE MarkAsFailed(delivery_tracking, id, ErrSendMessage)
               ELSE /\ delivery_tracking' =
                         MarkAsFailed(delivery_tracking, id, ErrDeviceNotConnected)
                    /\ UNCHANGED hubVars
          ELSE /\ delivery_tracking' =
                    MarkAsFailed(delivery_tracking, id, ErrUnsupportedChannel)
               /\ UNCHANGED hubVars
  /\ UNCHANGED <<devices, tokens, notifications, sub, acks, tasks, execs, dlq, extVars>>

(***************************************************************************)
(* Next-state relation.                                                    *)
(***************************************************************************)
Next ==
  \/ \E c \in ClientIds, d \in DeviceIds : HandleConnection(c, d)
  \/ \E c \in ClientIds : ReadPumpExit(c)
  \/ \E c \in ClientIds : UnregisterClient(c)
  \/ \E c \in ClientIds : WritePump(c)
  \/ \E d \in DeviceIds, tt \in PushTokenTypes : Upsert(d, tt)
  \/ \E d \in DeviceIds : CleanupInactiveDevices(d)
  \/ \E u \in UserIds, ds \in SeqsOver(DeviceIds), chs \in SUBSET Channels,
        ok \in BOOLEAN : SendNotificationToDevices(u, ds, chs, ok)
  \/ \E u \in UserIds, chs \in SUBSET Channels, ok \in BOOLEAN,
        listOk \in BOOLEAN, order \in SeqsOver(DeviceIds) :
        SendNotification(u, chs, ok, listOk, order)
  \/ SubReturn
  \/ SubDeviceNotFound
  \/ \E ok \in BOOLEAN : SubCreateWebSocket(ok)
  \/ SubSendMessage
  \/ SubMarkAsSent
  \/ SubNotConnected
  \/ SubToProviders
  \/ \E ok \in BOOLEAN : SubFCM(ok)
  \/ \E ok \in BOOLEAN : SubAPNS(ok)
  \/ \E a \in AckIds, via \in {"ws", "http"}, n \in NotificationIds,
        d \in DeviceIds, ok \in BOOLEAN, id \in 0..MaxRows :
        ConfirmDelivery(a, via, n, d, ok, id)
  \/ \E a \in AckIds, ok \in BOOLEAN : ConfirmCreate(a, ok)
  \/ \E a \in AckIds, ok \in BOOLEAN : ConfirmMarkAsDelivered(a, ok)
  \/ \E polled \in SUBSET (1..MaxRows) : ProcessPendingDeliveries(polled)
  \/ \E e \in ExecIds, err \in {ExecuteNil, ExecuteFailed} : ExecuteWithRetry(e, err)
  \/ \E e \in ExecIds : OnSuccess(e)
  \/ \E e \in ExecIds : RetryTimer(e)
  \/ ResendFailedNotifications
  \/ \E id \in 1..MaxRows, ok \in BOOLEAN : ResendDelivery(id, ok)
  \/ \E rc \in 0..MaxRetryCount, n \in NanoSamples :
        CalculateNextRetryDelay(rc, n)
  \/ Tick
  \/ \E t \in TaskIds : AddTask(t)
  \/ \E t \in TaskIds : RemoveTask(t)
  \/ \E t \in TaskIds, ok \in BOOLEAN : RetryTask(t, ok)
  \/ RetryTaskRemove
  \/ \E s \in SessIds, d \in DeviceIds, u \in UserIds \cup {""} :
        RunRegister(s, d, u)
  \/ \E s \in SessIds : ReadPumpPeerError(s)
  \/ \E s \in SessIds : ReadPumpConnClosed(s)
  \/ \E s \in SessIds, fromReader \in BOOLEAN : RunUnregister(s, fromReader)
  \/ \E s \in SessIds, ok \in BOOLEAN : WritePumpSend(s, ok)
  \/ \E s \in SessIds : WritePumpClosed(s)
  \/ \E s \in SessIds : WritePumpPingError(s)
  \/ \E d \in DeviceIds : PushToDevice(d)
  \/ \E u \in UserIds : PushToUser(u)
  \/ RunBroadcast
  \/ Shutdown
  \/ RunShutdown
  \/ \E s \in SessIds : ReadPumpMessage(s)
  \/ CleanBegin
  \/ CleanCheck
  \/ CleanFatal
  \/ \E s \in SessIds : CleanOffer(s)
  \/ \E s \in SessIds : RunUnregisterCleaner(s)
  \/ CleanDone
  \/ \E d \in DeviceIds, v \in TokenValues, tokenType \in TokenTypes, createOk \in BOOLEAN :
       UpdateToken(d, v, tokenType, createOk)
  \/ \E d \in DeviceIds, v \in TokenValues, given \in SUBSET TokenTypes,
        failed \in SUBSET TokenTypes, authOk \in BOOLEAN :
       SyncTokens(d, v, given, failed, authOk)
  \/ \E d \in DeviceIds, v \in TokenValues, auth \in {"", "valid", "invalid"},
        createOk \in BOOLEAN :
       UpdateAPNSToken(d, v, auth, createOk)
  \/ \E d \in DeviceIds, v \in TokenValues, auth \in {"", "valid", "invalid"},
        createOk \in BOOLEAN :
       UpdateFCMToken(d, v, auth, createOk)
  \/ \E r \in RegIds, identifier \in DeviceIdentifiers, userID \in {NoUser} \cup UserIds,
        queryOk \in BOOLEAN :
       RegisterLookup(r, identifier, userID, queryOk)
  \/ \E r \in RegIds, execOk \in BOOLEAN : RegisterStore(r, execOk)
  \/ \E id \in 1..MaxDeviceRows : DeviceDelete(id)
  \/ \E deviceID \in 1..MaxDeviceRows, userID \in UserIds, token \in PresentedTokens,
        updateOk \in BOOLEAN :
       HandlerLinkDeviceToUser(deviceID, userID, token, updateOk)
  \/ \E deviceID \in 1..MaxDeviceRows, userID \in UserIds, token \in PresentedTokens,
        updateOk \in BOOLEAN :
       ServerLinkDeviceToUser(deviceID, userID, token, updateOk)
  \/ \E token \in PresentedTokens, forceTemporary \in BOOLEAN :
       RenewToken(token, forceTemporary)
  \/ \E token \in PresentedTokens : HandleConnectionToken(token)
  \/ \E d \in DeviceIds : SendToDeviceBegin(d)
  \/ \E u \in UserIds : SendToUserBegin(u)
  \/ \E s \in SessIds : SendNext(s)
  \/ SendDone
  \/ SendFatal
  \/ \E s \in SessIds : OnMessagePing(s)
  \/ \E token \in PresentedTokens, clientIdentifier \in DeviceIdentifiers,
        clientUserID \in {NoUser} \cup UserIds, clientDeviceID \in 1..MaxDeviceRows :
       TokenRefresh(token, clientIdentifier, clientUserID, clientDeviceID)
  \/ \E token \in PresentedTokens : ExtractIdentifier(token)
  \/ \E deliveryID \in 1..MaxRows, status \in DeliveryStatuses, getOk \in BOOLEAN,
        execOk \in BOOLEAN :
       ServiceUpdateStatus(deliveryID, status, getOk, execOk)

Spec == Init /\ [][Next]_vars

(***************************************************************************)
(* Sub-systems.  Each next-state relation below offers actions of Next     *)
(* with their inputs taken from a part of the domains, so every behaviour  *)
(* of a sub-system is a behaviour of Spec.                                 *)
(***************************************************************************)
\* the retry scheduler and the resend sweep against submissions to one device
\* and the device's acknowledgements of what it received
NextRetry ==
  \/ HandleConnection("c1", "d1")
  \/ ReadPumpExit("c1")
  \/ UnregisterClient("c1")
  \/ WritePump("c1")
  \/ Upsert("d1", TokenTypeFCM)
  \/ SendNotificationToDevices("1", <<"d1">>, {}, TRUE)
  \/ SubReturn
  \/ SubCreateWebSocket(TRUE)
  \/ SubSendMessage
  \/ SubMarkAsSent
  \/ SubToProviders
  \/ SubFCM(TRUE)
  \/ SubAPNS(TRUE)
  \/ \E n \in NotificationIds, id \in 0..MaxRows :
        DeviceAck("a1", "ws", n, "d1", TRUE, id)
  \/ ConfirmMarkAsDelivered("a1", TRUE)
  \/ \E polled \in SUBSET (1..MaxRows) : ProcessPendingDeliveries(polled)
  \/ \E e \in ExecIds, err \in {ExecuteNil, ExecuteFailed} : ExecuteWithRetry(e, err)
  \/ \E e \in ExecIds : OnSuccess(e)
  \/ \E e \in ExecIds : RetryTimer(e)
  \/ ResendFailedNotifications
  \/ \E id \in 1..MaxRows, ok \in BOOLEAN : ResendDelivery(id, ok)

SpecRetry == Init /\ [][NextRetry]_vars

\* submissions to one device and the device's acknowledgements, over the
\* socket or over HTTP, of what it received
NextAck ==
  \/ HandleConnection("c1", "d1")
  \/ ReadPumpExit("c1")
  \/ UnregisterClient("c1")
  \/ WritePump("c1")
  \/ Upsert("d1", TokenTypeFCM)
  \/ \E chs \in {{}, {TokenTypeFCM}}, ok \in BOOLEAN :
        SendNotificationToDevices("1", <<"d1">>, chs, ok)
  \/ SubReturn
  \/ \E ok \in BOOLEAN : SubCreateWebSocket(ok)
  \/ SubSendMessage
  \/ SubMarkAsSent
  \/ SubToProviders
  \/ \E ok \in BOOLEAN : SubFCM(ok)
  \/ \E ok \in BOOLEAN : SubAPNS(ok)
  \/ \E a \in AckIds, via \in {"ws", "http"}, n \in NotificationIds,
        ok \in BOOLEAN, id \in 0..MaxRows :
        DeviceAck(a, via, n, "d1", ok, id)
  \/ \E a \in AckIds, ok \in BOOLEAN : ConfirmMarkAsDelivered(a, ok)

SpecAck == Init /\ [][NextAck]_vars

\* acknowledgements of any (notification, device), two at a time
NextAckTwice ==
  \/ HandleConnection("c1", "d1")
  \/ ReadPumpExit("c1")
  \/ UnregisterClient("c1")
  \/ WritePump("c1")
  \/ \E ok \in BOOLEAN : SendNotificationToDevices("1", <<"d1">>, {}, ok)
  \/ SubReturn
  \/ \E ok \in BOOLEAN : SubCreateWebSocket(ok)
  \/ SubSendMessage
  \/ SubMarkAsSent
  \/ SubToProviders
  \/ SubFCM(TRUE)
  \/ SubAPNS(TRUE)
  \/ \E a \in AckIds, via \in {"ws", "http"}, n \in NotificationIds,
        ok \in BOOLEAN, id \in 0..MaxRows :
        ConfirmDelivery(a, via, n, "d1", ok, id)
  \/ \E a \in AckIds, ok \in BOOLEAN : ConfirmCreate(a, ok)
  \/ \E a \in AckIds, ok \in BOOLEAN : ConfirmMarkAsDelivered(a, ok)

SpecAckTwice == Init /\ [][NextAckTwice]_vars

\* the submission cascade over both devices, with a session, the channel
\* tokens of one device and its clean-up; no acknowledgement, retry or sweep
NextCascade ==
  \/ \E d \in DeviceIds : HandleConnection("c1", d)
  \/ ReadPumpExit("c1")
  \/ UnregisterClient("c1")
  \/ WritePump("c1")
  \/ \E tt \in PushTokenTypes : Upsert("d1", tt)
  \/ CleanupInactiveDevices("d1")
  \/ \E u \in UserIds, ds \in SeqsOver(DeviceIds), chs \in SUBSET Channels,
        ok \in BOOLEAN : SendNotificationToDevices(u, ds, chs, ok)
  \/ \E u \in UserIds, chs \in SUBSET Channels, ok \in BOOLEAN,
        listOk \in BOOLEAN, order \in SeqsOver(DeviceIds) :
        SendNotification(u, chs, ok, listOk, order)
  \/ SubReturn
  \/ SubDeviceNotFound
  \/ \E ok \in BOOLEAN : SubCreateWebSocket(ok)
  \/ SubSendMessage
  \/ SubMarkAsSent
  \/ SubNotConnected
  \/ SubToProviders
  \/ \E ok \in BOOLEAN : SubFCM(ok)
  \/ \E ok \in BOOLEAN : SubAPNS(ok)

SpecCascade == Init /\ [][NextCascade]_vars

\* both submission paths, with and without a failing save, for the first
\* user; one session and the FCM token of the first device
NextSubmit ==
  \/ HandleConnection("c1", "d1")
  \/ ReadPumpExit("c1")
  \/ UnregisterClient("c1")
  \/ WritePump("c1")
  \/ Upsert("d1", TokenTypeFCM)
  \/ \E chs \in {{}, {TokenTypeFCM}}, ok \in BOOLEAN :
        SendNotificationToDevices("1", <<"d1">>, chs, ok)
  \/ \E ok \in BOOLEAN, listOk \in BOOLEAN, order \in SeqsOver(DeviceIds) :
        SendNotification("1", {}, ok, listOk, order)
  \/ SubReturn
  \/ SubDeviceNotFound
  \/ \E ok \in BOOLEAN : SubCreateWebSocket(ok)
  \/ SubSendMessage
  \/ SubMarkAsSent
  \/ SubNotConnected
  \/ SubToProviders
  \/ \E ok \in BOOLEAN : SubFCM(ok)
  \/ \E ok \in BOOLEAN : SubAPNS(ok)

SpecSubmit == Init /\ [][NextSubmit]_vars

\* the retry scheduler on rows whose every execution fails (DeliveryTask.Execute
\* returns the repository's error each time), against submissions to one device
NextRetryFail ==
  \/ HandleConnection("c1", "d1")
  \/ ReadPumpExit("c1")
  \/ UnregisterClient("c1")
  \/ WritePump("c1")
  \/ Upsert("d1", TokenTypeFCM)
  \/ SendNotificationToDevices("1", <<"d1">>, {}, TRUE)
  \/ SubReturn
  \/ SubCreateWebSocket(TRUE)
  \/ SubSendMessage
  \/ SubMarkAsSent
  \/ SubToProviders
  \/ SubFCM(TRUE)
  \/ SubAPNS(TRUE)
  \/ \E polled \in SUBSET (1..MaxRows) : ProcessPendingDeliveries(polled)
  \/ \E e \in ExecIds : ExecuteWithRetry(e, ExecuteFailed)
  \/ \E e \in ExecIds : RetryTimer(e)

\* the retry scheduler on rows whose every execution fails, some of them with
\* the error of a canceled context
NextRetryCancel ==
  \/ HandleConnection("c1", "d1")
  \/ ReadPumpExit("c1")
  \/ UnregisterClient("c1")
  \/ WritePump("c1")
  \/ Upsert("d1", TokenTypeFCM)
  \/ SendNotificationToDevices("1", <<"d1">>, {}, TRUE)
  \/ SubReturn
  \/ SubCreateWebSocket(TRUE)
  \/ SubSendMessage
  \/ SubMarkAsSent
  \/ SubToProviders
  \/ SubFCM(TRUE)
  \/ SubAPNS(TRUE)
  \/ \E polled \in SUBSET (1..MaxRows) : ProcessPendingDeliveries(polled)
  \/ \E e \in ExecIds, err \in {ExecuteFailed, ContextCanceled} :
       ExecuteWithRetry(e, err)
  \/ \E e \in ExecIds : RetryTimer(e)

SpecRetryCancel == Init /\ [][NextRetryCancel]_vars

\* a started goroutine runs and a timer set with time.AfterFunc fires: every
\* chain's execution and timer callback are taken when they stay enabled
FairRetryFail ==
  \A e \in ExecIds :
    WF_vars(ExecuteWithRetry(e, ExecuteFailed)) /\ WF_vars(RetryTimer(e))

SpecRetryFail == Init /\ [][NextRetryFail]_vars /\ FairRetryFail

\* calculateNextRetryDelay on its own: the retry counts a scheduler can pass
\* (0..MaxRetryCount) and the clock readings are drawn before each call
InitBackoff ==
  /\ InitSystem
  /\ queue = NewDeadLetterQueue(0)
  /\ now = 0
  /\ evicted = {}
  /\ dlqRetry = NoRetryTask
  /\ InitSessions
  /\ InitServices
  /\ \E rc \in 0..MaxRetryCount, n \in NanoSamples :
        backoff = [NoBackoff EXCEPT !.retryCount = rc, !.nano = n]

NextBackoff ==
  \E rc \in 0..MaxRetryCount, n \in NanoSamples : CalculateNextRetryDelay(rc, n)

SpecBackoff == InitBackoff /\ [][NextBackoff]_vars

\* a dead-letter queue built with a capacity of 1..MaxCapacity, on its own
InitDLQ ==
  /\ InitSystem
  /\ backoff = NoBackoff
  /\ \E c \in 1..MaxCapacity : queue = NewDeadLetterQueue(c)
  /\ now = 0
  /\ evicted = {}
  /\ dlqRetry = NoRetryTask
  /\ InitSessions
  /\ InitServices

NextDLQ ==
  \/ Tick
  \/ \E t \in TaskIds : AddTask(t)
  \/ \E t \in TaskIds : RemoveTask(t)
  \/ \E t \in TaskIds, ok \in BOOLEAN : RetryTask(t, ok)
  \/ RetryTaskRemove

SpecDLQ == InitDLQ /\ [][NextDLQ]_vars

\* the hub, its sessions and its callers on their own
NextSessions ==
  \/ RunRegister("s1", "d1", "1")
  \/ RunRegister("s2", "d1", "1")
  \/ RunRegister("s2", "d2", "")
  \/ \E s \in SessIds : ReadPumpPeerError(s)
  \/ \E s \in SessIds : ReadPumpConnClosed(s)
  \/ \E s \in SessIds, fromReader \in BOOLEAN : RunUnregister(s, fromReader)
  \/ \E s \in SessIds, ok \in BOOLEAN : WritePumpSend(s, ok)
  \/ \E s \in SessIds : WritePumpClosed(s)
  \/ \E s \in SessIds : WritePumpPingError(s)
  \/ \E d \in DeviceIds : PushToDevice(d)
  \/ PushToUser("1")
  \/ RunBroadcast
  \/ Shutdown
  \/ RunShutdown

SpecSessions == Init /\ [][NextSessions]_vars

\* Hub.Run's select takes every channel that stays ready, a started pump runs,
\* and a read on a connection closed on this side returns
FairSessions ==
  /\ \A s \in SessIds :
       /\ WF_vars(RunUnregister(s, TRUE))
       /\ WF_vars(RunUnregister(s, FALSE))
       /\ WF_vars(ReadPumpConnClosed(s))
       /\ WF_vars(\E ok \in BOOLEAN : WritePumpSend(s, ok))
       /\ WF_vars(WritePumpClosed(s))
  /\ WF_vars(RunShutdown)

SpecSessionsFair == Init /\ [][NextSessions]_vars /\ FairSessions

\* the hub worker beside SendToDevice / SendToUser calls and the read pumps'
\* replies, taken one send at a time
NextSend ==
  \/ RunRegister("s1", "d1", "1")
  \/ RunRegister("s2", "d1", "1")
  \/ \E s \in SessIds : ReadPumpPeerError(s)
  \/ \E s \in SessIds : ReadPumpConnClosed(s)
  \/ \E s \in SessIds, fromReader \in BOOLEAN : RunUnregister(s, fromReader)
  \/ \E s \in SessIds, ok \in BOOLEAN : WritePumpSend(s, ok)
  \/ \E s \in SessIds : WritePumpClosed(s)
  \/ SendToDeviceBegin("d1")
  \/ SendToUserBegin("1")
  \/ \E s \in SessIds : SendNext(s)
  \/ SendDone
  \/ SendFatal
  \/ \E s \in SessIds : OnMessagePing(s)

SpecSend == Init /\ [][NextSend]_vars

\* the idle reaper beside the hub worker and the read pumps
NextCleaner ==
  \/ RunRegister("s1", "d1", "1")
  \/ RunRegister("s2", "d1", "1")
  \/ Tick
  \/ \E s \in SessIds : ReadPumpMessage(s)
  \/ \E s \in SessIds : ReadPumpPeerError(s)
  \/ \E s \in SessIds : RunUnregister(s, TRUE)
  \/ CleanBegin
  \/ CleanCheck
  \/ CleanFatal
  \/ \E s \in SessIds : CleanOffer(s)
  \/ \E s \in SessIds : RunUnregisterCleaner(s)
  \/ CleanDone

SpecCleaner == Init /\ [][NextCleaner]_vars

\* the token handlers, for a device that exists, while the clock advances
NextTokens ==
  \/ Tick
  \/ \E v \in TokenValues, tokenType \in TokenTypes, createOk \in BOOLEAN :
       UpdateToken("d1", v, tokenType, createOk)
  \/ \E v \in TokenValues, given \in SUBSET TokenTypes, failed \in SUBSET TokenTypes,
        authOk \in BOOLEAN :
       SyncTokens("d1", v, given, failed, authOk)
  \/ \E v \in TokenValues, auth \in {"", "valid", "invalid"}, createOk \in BOOLEAN :
       UpdateAPNSToken("d1", v, auth, createOk)
  \/ \E v \in TokenValues, auth \in {"", "valid", "invalid"}, createOk \in BOOLEAN :
       UpdateFCMToken("d1", v, auth, createOk)

SpecTokens == Init /\ [][NextTokens]_vars

\* the devices tables the service can start from: distinct identifiers,
\* each device with or without a user
MigratedTables ==
  {<< >>} \cup
  {<<NewDevice("i1", u)>> : u \in {NoUser} \cup UserIds} \cup
  {<<NewDevice("i1", u), NewDevice("i2", v)>> :
     u \in {NoUser} \cup UserIds, v \in {NoUser} \cup UserIds}

InitRegistry ==
  /\ InitSystem
  /\ backoff = NoBackoff
  /\ queue = NewDeadLetterQueue(0)
  /\ now = 0
  /\ evicted = {}
  /\ dlqRetry = NoRetryTask
  /\ InitSessions
  /\ cleaner = NoSweep
  /\ statusCall = NoStatusCall
  /\ InitCallers
  /\ notification_tokens = << >>
  /\ \E rows \in MigratedTables : InitIdentity(rows)

\* registrations, with or without a user, of known and unknown identifiers
NextRegistry ==
  \/ \E r \in RegIds, identifier \in DeviceIdentifiers, userID \in {NoUser} \cup UserIds,
        queryOk \in BOOLEAN :
       RegisterLookup(r, identifier, userID, queryOk)
  \/ \E r \in RegIds, execOk \in BOOLEAN : RegisterStore(r, execOk)
  \/ \E id \in 1..MaxDeviceRows : DeviceDelete(id)

SpecRegistry == InitRegistry /\ [][NextRegistry]_vars

\* the token strings of the link requests: none, a temporary credential for
\* any identifier, issued now or at the start, one with a foreign signature,
\* a permanent credential
LinkTokens ==
  {NoToken} \cup
  {SignedString(TemporaryClaims(i, t)) : i \in DeviceIdentifiers, t \in {0, now}} \cup
  {Forged(SignedString(TemporaryClaims(i, now))) : i \in DeviceIdentifiers} \cup
  {SignedString(PermanentClaims("1", d, now)) : d \in DOMAIN device_rows}

\* device links over HTTP and gRPC while credentials age
NextLink ==
  \/ Tick
  \/ \E deviceID \in 1..2, userID \in UserIds, token \in LinkTokens,
        updateOk \in BOOLEAN :
       HandlerLinkDeviceToUser(deviceID, userID, token, updateOk)
  \/ \E deviceID \in 1..2, userID \in UserIds, token \in LinkTokens,
        updateOk \in BOOLEAN :
       ServerLinkDeviceToUser(deviceID, userID, token, updateOk)

SpecLink == InitRegistry /\ [][NextLink]_vars

\* the tracking tables a call of UpdateStatus can find: rows of the first
\* notification for the first device, in any status
StatusTables ==
  {<<[NewDeliveryTracking(1, "d1", TokenTypeWebSocket) EXCEPT !.status = s1]>> :
     s1 \in DeliveryStatuses} \cup
  {<<[NewDeliveryTracking(1, "d1", TokenTypeWebSocket) EXCEPT !.status = s1],
     [NewDeliveryTracking(1, "d1", TokenTypeFCM) EXCEPT !.status = s2]>> :
     s1 \in DeliveryStatuses, s2 \in DeliveryStatuses}

InitStatus ==
  /\ devices = [d \in DeviceIds |-> [user_id |-> "1", deleted |-> FALSE]]
  /\ tokens = {}
  /\ notifications = {1}
  /\ delivery_tracking \in StatusTables
  /\ clients = {}
  /\ deviceClients = [d \in DeviceIds |-> {}]
  /\ clientDevice = [c \in ClientIds |-> "d1"]
  /\ send = [c \in ClientIds |-> << >>]
  /\ received = {}
  /\ unregister = {}
  /\ sub = SubIdle
  /\ acks = [a \in AckIds |-> AckIdle]
  /\ tasks = {}
  /\ execs = [e \in ExecIds |-> ExecFree]
  /\ dlq = {}
  /\ resend = ResendIdle
  /\ backoff = NoBackoff
  /\ queue = NewDeadLetterQueue(0)
  /\ now = 0
  /\ evicted = {}
  /\ dlqRetry = NoRetryTask
  /\ InitSessions
  /\ InitServices

\* calls of UpdateStatus with every row id and status
NextStatus ==
  \E deliveryID \in 1..MaxRows, status \in DeliveryStatuses, getOk \in BOOLEAN,
     execOk \in BOOLEAN :
    ServiceUpdateStatus(deliveryID, status, getOk, execOk)

SpecStatus == InitStatus /\ [][NextStatus]_vars

\* the recovery path applied to what a request can carry, as time passes
NextRecovery ==
  \/ Tick
  \/ \E token \in PresentedTokens : ExtractIdentifier(token)

SpecRecovery == InitRegistry /\ [][NextRecovery]_vars

\* the token strings of the renew requests: a temporary credential for any
\* identifier and a permanent credential of any device and user, issued now
\* or at the start, and each with a foreign signature
RenewTokens ==
  LET issued ==
        {SignedString(TemporaryClaims(i, t)) : i \in DeviceIdentifiers, t \in {0, now}} \cup
        {SignedString(PermanentClaims(u, d, t)) :
           u \in UserIds, d \in DOMAIN device_rows, t \in {0, now}}
  IN issued \cup {Forged(t) : t \in issued}

\* renewals over HTTP and over a session, as time passes
NextRenew ==
  \/ Tick
  \/ \E token \in RenewTokens, forceTemporary \in BOOLEAN :
       RenewToken(token, forceTemporary)
  \/ \E token \in RenewTokens : HandleConnectionToken(token)
  \/ \E token \in RenewTokens, clientDeviceID \in DOMAIN device_rows,
        clientUserID \in {NoUser} \cup UserIds :
       TokenRefresh(token, device_rows[clientDeviceID].device_identifier,
                    clientUserID, clientDeviceID)

\* renewals leave the devices table alone: one table with a linked and an
\* unlinked device
InitRenew ==
  /\ InitRegistry
  /\ device_rows = <<NewDevice("i1", "1"), NewDevice("i2", NoUser)>>

SpecRenew == InitRenew /\ [][NextRenew]_vars

(***************************************************************************)
(* Properties.                                                             *)
(***************************************************************************)
\* an acknowledgement that has returned success
AckSucceeded(a) == acks[a].pc = "idle" /\ acks[a].result = "success"

\* the state machine of a tracking row as specified: PENDING -> SENT | FAILED |
\* EXPIRED, SENT -> DELIVERED | FAILED | EXPIRED, FAILED -> PENDING
AllowedTransition(from, to) ==
  \/ from = DeliveryStatusPending
       /\ to \in {DeliveryStatusSent, DeliveryStatusFailed, DeliveryStatusExpired}
  \/ from = DeliveryStatusSent
       /\ to \in {DeliveryStatusDelivered, DeliveryStatusFailed, DeliveryStatusExpired}
  \/ from = DeliveryStatusFailed /\ to = DeliveryStatusPending

\* C1: over any interleaving of submissions, acknowledgements, retry-task
\* executions and resend sweeps, every change of a persisted row's status is
\* one of the allowed transitions; no other status change happens to a row.
C1_AllowedTransitions ==
  [][\A id \in DOMAIN delivery_tracking :
       delivery_tracking'[id].status # delivery_tracking[id].status =>
         AllowedTransition(delivery_tracking[id].status,
                           delivery_tracking'[id].status)]_vars

\* an acknowledgement has moved a row to DELIVERED that its submission has
\* not yet marked SENT (PENDING -> DELIVERED)
C1_DeliveredBeforeSent ==
  /\ sub.pc = "ws_mark"
  /\ delivery_tracking[sub.delivery].status = DeliveryStatusDelivered

\* the steps of the retry task running in chain e
RetryTaskStep(e) == execs[e].pc # "free" /\ execs'[e] # execs[e]

\* C2: DELIVERED and EXPIRED are absorbing; in particular a retry task whose
\* row was acknowledged (moved to DELIVERED) between being polled and being
\* executed performs no status update on that row.
C2_RetryKeepsDelivered ==
  [][\A e \in ExecIds :
       (/\ RetryTaskStep(e)
        /\ delivery_tracking[execs[e].delivery].status
             \in {DeliveryStatusDelivered, DeliveryStatusExpired})
       => delivery_tracking'[execs[e].delivery].status =
            delivery_tracking[execs[e].delivery].status]_vars

\* a retry task has executed on a row that a successful acknowledgement had
\* marked DELIVERED: the row is PENDING again
C2_AckedRowPendingAgain ==
  \E e \in ExecIds, a \in AckIds :
    /\ execs[e].pc = "success"
    /\ AckSucceeded(a)
    /\ acks[a].delivery = execs[e].delivery
    /\ delivery_tracking[execs[e].delivery].status = DeliveryStatusPending

\* C3: for every acknowledgement of (n, d) that returned success there is a
\* row of (n, d) with status DELIVERED and the status query of n reports
\* DELIVERED for d; the row an acknowledgement created is marked DELIVERED.
C3_AckedIsDelivered ==
  \A a \in AckIds :
    AckSucceeded(a) =>
      /\ \E id \in RowsOf(delivery_tracking, acks[a].notification, acks[a].device) :
           delivery_tracking[id].status = DeliveryStatusDelivered
      /\ <<acks[a].device, DeliveryStatusDelivered>>
           \in GetDeliveryStatus(delivery_tracking, acks[a].notification)
      /\ ~acks[a].found =>
           delivery_tracking[acks[a].delivery].status = DeliveryStatusDelivered

\* an acknowledgement returned success and the only row of its pair is SENT
C3_AckedRowSent ==
  \E a \in AckIds :
    /\ AckSucceeded(a)
    /\ \A id \in RowsOf(delivery_tracking, acks[a].notification, acks[a].device) :
         delivery_tracking[id].status = DeliveryStatusSent
    /\ sub.pc = "done"

\* C4: an acknowledgement moves the row it located to DELIVERED only if the
\* row's status is SENT; a PENDING, FAILED or EXPIRED row is left unchanged.
C4_AckOnlyFromSent ==
  [][\A a \in AckIds :
       (/\ acks[a].pc = "mark"
        /\ acks[a].found
        /\ acks'[a].pc = "idle"
        /\ delivery_tracking[acks[a].delivery].status # DeliveryStatusSent)
       => delivery_tracking'[acks[a].delivery] =
            delivery_tracking[acks[a].delivery]]_vars

\* an acknowledgement has returned success on the row its submission is
\* still about to mark SENT: the row was PENDING when it was acknowledged
C4_AckedWhilePending ==
  \E a \in AckIds :
    /\ AckSucceeded(a)
    /\ acks[a].found
    /\ sub.pc = "ws_mark"
    /\ sub.delivery = acks[a].delivery

\* C5: acknowledging the same (notification, device) twice, one after the
\* other or concurrently, leaves the rows one acknowledgement leaves: two
\* acknowledgements of a pair that both returned success have not both
\* created a row.
C5_AckIdempotent ==
  \A a, b \in AckIds :
    (/\ a # b
     /\ AckSucceeded(a)
     /\ AckSucceeded(b)
     /\ acks[a].notification = acks[b].notification
     /\ acks[a].device = acks[b].device)
    => (acks[a].found \/ acks[b].found \/ acks[a].delivery = acks[b].delivery)

\* two acknowledgements of one pair have each created a row
C5_TwoRowsCreated ==
  \E a, b \in AckIds :
    /\ AckSucceeded(a) /\ AckSucceeded(b)
    /\ ~acks[a].found /\ ~acks[b].found
    /\ acks[a].notification = acks[b].notification
    /\ acks[a].device = acks[b].device
    /\ acks[a].delivery # acks[b].delivery
    /\ Cardinality(RowsOf(delivery_tracking, acks[a].notification, acks[a].device)) = 2

\* the submission has gone through its device loop and returned
SubFinished == sub.pc = "done" /\ sub.result \in {"success", "delivery_failed"}

\* C6: a submission returns success if and only if at least one row it created
\* reached SENT; otherwise it returns the delivery-failed indicator.
C6_SuccessIffSent ==
  SubFinished =>
    (sub.result = "success" <=>
       \E id \in sub.created : delivery_tracking[id].status = DeliveryStatusSent)

\* a submission returned success and every row it created is still PENDING
C6_SuccessWithPendingRows ==
  /\ SubFinished
  /\ sub.result = "success"
  /\ sub.created # {}
  /\ \A id \in sub.created : delivery_tracking[id].status = DeliveryStatusPending

\* the failure reason the specification names for a rejected frame
ReasonDeviceNotConnected == {"device not connected", ErrDeviceNotConnected}

\* C7: when the hub does not accept the frame for a target device, the
\* device's live-socket row is marked FAILED with reason "device not connected"
\* and the cascade continues with the provider channels of the same device.
C7_RejectedFrameCascades ==
  [][(/\ sub.pc = "ws_send"
      /\ sub.kind = "devices"
      /\ sub' # sub
      /\ ~SendToDevice(Head(sub.targets)))
     => /\ delivery_tracking'[sub.delivery].status = DeliveryStatusFailed
        /\ delivery_tracking'[sub.delivery].error_message \in ReasonDeviceNotConnected
        /\ sub'.pc = TokenTypeFCM
        /\ sub'.targets = sub.targets]_vars

\* a rejected frame: the live-socket row is FAILED with the send error's text
\* and the submission has returned without a provider row for the device,
\* which has a provider token
C7_RejectedWithoutCascade ==
  /\ sub.pc = "done"
  /\ sub.kind = "devices"
  /\ \E id \in sub.created :
       /\ delivery_tracking[id].channel = TokenTypeWebSocket
       /\ delivery_tracking[id].status = DeliveryStatusFailed
       /\ delivery_tracking[id].error_message = ErrSendMessage
       /\ GetByDeviceAndType(delivery_tracking[id].device_id, TokenTypeFCM)
       /\ TokenTypeFCM \in sub.use
       /\ \A other \in sub.created \ {id} :
            delivery_tracking[other].device_id # delivery_tracking[id].device_id

\* C8: once one channel of a device has been counted as a successful delivery
\* in a submission, no row is created and no send is attempted on a later
\* channel for that device in the same submission.
C8_CascadeStops ==
  [][(/\ sub.pc \notin {"idle", "done"}
      /\ sub.targets # << >>
      /\ Head(sub.targets) \in sub.counted)
     => /\ Len(delivery_tracking') = Len(delivery_tracking)
        /\ sub'.attempted = sub.attempted]_vars

\* one submission has created a row on both provider channels of one device
C8_BothProviders ==
  \E i, j \in sub.created :
    /\ delivery_tracking[i].device_id = delivery_tracking[j].device_id
    /\ delivery_tracking[i].channel = TokenTypeFCM
    /\ delivery_tracking[j].channel = TokenTypeAPNS
    /\ delivery_tracking[i].device_id \in sub.counted

\* C9: when a submission carries an explicit channels subset, every row it
\* creates and every send it attempts uses a channel of that subset, with
\* device_ids given as well as with targets resolved from user_id.
C9_ChannelsRespected ==
  sub.channels # {} =>
    /\ \A id \in sub.created : delivery_tracking[id].channel \in sub.channels
    /\ \A at \in sub.attempted : at[2] \in sub.channels

\* a submission by user_id restricted to a provider channel has sent a frame
C9_FrameOutsideSubset ==
  /\ sub.byUser
  /\ sub.channels = {TokenTypeFCM}
  /\ \E at \in sub.attempted : at[2] = TokenTypeWebSocket
  /\ \E id \in sub.created : delivery_tracking[id].status = DeliveryStatusSent

\* C10: when targets are resolved from user_id, a tombstoned device of the
\* user is never a target: no row is created for it and nothing is sent to it.
C10_TombstonedNotTargeted ==
  sub.byUser =>
    /\ \A id \in sub.created : delivery_tracking[id].device_id \notin sub.tombstoned
    /\ \A at \in sub.attempted : at[1] \notin sub.tombstoned

\* a submission by user_id has created a row for, and sent a frame to, a device
\* that was tombstoned when the targets were resolved
C10_TombstonedReached ==
  /\ sub.byUser
  /\ \E id \in sub.created :
       /\ delivery_tracking[id].device_id \in sub.tombstoned
       /\ delivery_tracking[id].status = DeliveryStatusSent
       /\ <<delivery_tracking[id].device_id, TokenTypeWebSocket>> \in sub.attempted

\* C11: the retry count the scheduler sees for a chain counts the chain's
\* failed executions: after k failed retry cycles it is at least k, so that
\* the failure following the MaxRetries-th takes the row out of the retry pool.
C11_RetryCountCountsFailures ==
  \A e \in ExecIds :
    execs[e].pc # "free" => GetRetryCount(e) >= execs[e].attempts

\* a chain waits for its timer after a failed execution and still sees the
\* retry count of the row as it was polled
C11_FailedChainSeesPolledCount ==
  \E e \in ExecIds :
    /\ execs[e].pc = "timer"
    /\ execs[e].attempts = MaxAttempts
    /\ GetRetryCount(e) = 0

\* C12: at most one retry execution chain per row is in flight; a poll that
\* finds a row whose task is already tracked starts no second execution.
C12_OneChainPerRow ==
  \A e1, e2 \in ExecIds :
    (e1 # e2 /\ execs[e1].pc # "free" /\ execs[e2].pc # "free")
      => execs[e1].delivery # execs[e2].delivery

\* a second poll has started a chain on a row whose first chain is still
\* waiting for its retry timer
C12_SecondChainStarted ==
  \E e1, e2 \in ExecIds :
    /\ execs[e1].pc = "timer"
    /\ execs[e2].pc = "run"
    /\ execs[e2].attempts = 0
    /\ execs[e1].delivery = execs[e2].delivery

\* C13: a retry task whose every execution fails is eventually moved to the
\* dead-letter store: absent from the tracked set, present in the dead-letter
\* queue, its row FAILED.
C13_FailingTaskDeadLettered ==
  \A id \in 1..MaxRows :
    (id \in tasks) ~>
      (/\ id \notin tasks
       /\ id \in dlq
       /\ delivery_tracking[id].status = DeliveryStatusFailed)

\* a chain is about to execute again after MaxAttempts failed executions, its
\* task still tracked and the dead-letter queue empty
C13_StillRetrying ==
  \E e \in ExecIds :
    /\ execs[e].pc = "run"
    /\ execs[e].attempts = MaxAttempts
    /\ execs[e].delivery \in tasks
    /\ dlq = {}

\* C14: ignoring jitter, the delay calculateNextRetryDelay computes is never
\* negative, never larger than the maximum interval, and not smaller than the
\* delay of an earlier call with a smaller or equal retry count.
C14_BackoffMonotoneCapped ==
  backoff.called =>
    /\ backoff.delay >= 0
    /\ backoff.delay <= MaxInterval
    /\ (backoff.prevCalled /\ backoff.prevCount <= backoff.count)
         => backoff.prevDelay <= backoff.delay

\* two calls with growing retry counts, the second one's product above the
\* maximum interval: its delay is the maximum interval, the first one's is less
C14_CappedAfterGrowth ==
  /\ backoff.called
  /\ backoff.prevCalled
  /\ backoff.prevCount < backoff.count
  /\ BaseInterval * Pow(Multiplier, backoff.count) > MaxInterval
  /\ backoff.delay = MaxInterval
  /\ backoff.prevDelay < backoff.delay
  /\ backoff.prevDelay = BaseInterval * Pow(Multiplier, backoff.prevCount)

\* C15: a dead-letter queue built with capacity C > 0 never holds more than C
\* tasks, whatever adds, removes and retries it has seen, and the entry an add
\* evicts from the full queue is one no other entry was inserted before.
C15_BoundedOldestEvicted ==
  /\ [](queue.maxCapacity > 0 => Cardinality(queue.tasks) <= queue.maxCapacity)
  /\ [][\A id \in evicted' :
          /\ id \in queue.tasks
          /\ \A o \in queue.tasks : queue.entryTimes[id] <= queue.entryTimes[o]]_vars

\* an add to the full queue has just evicted an entry while a later one stays
C15_EvictedFromFull ==
  /\ queue.maxCapacity = MaxCapacity
  /\ Cardinality(queue.tasks) = queue.maxCapacity
  /\ evicted # {}
  /\ evicted \cap queue.tasks = {}
  /\ \E a, b \in queue.tasks : queue.entryTimes[a] < queue.entryTimes[b]

\* C16: in a running process, a frame enqueued into a session's outbound
\* channel is eventually written to the socket, or the session is
\* unregistered from the hub; a write error that ends the write loop does not
\* leave the session registered for ever.
C16_FrameWrittenOrUnregistered ==
  \A s \in SessIds :
    sessions[s].unwritten ~>
      (~sessions[s].unwritten \/ s \notin hub.clients \/ ~Alive)

\* the write loop has ended on an error with a frame unwritten, and the
\* session is still registered
C16_WriteLoopEndedRegistered ==
  \E s \in SessIds :
    /\ sessions[s].unwritten
    /\ sessions[s].writer = "done"
    /\ sessions[s].reader = "run"
    /\ s \in hub.clients
    /\ Alive

UnregisterProcessed(s) ==
  \/ sessions[s].reader = "unreg" /\ sessions'[s].reader = "done"
  \/ drops'[s] < drops[s]

\* C19: when the hub has processed an unregister request of a session, the
\* session is in neither the master set nor the device index nor the user
\* index, its channel is closed, and a device or user left without a session
\* has no index entry: IsDeviceConnected / IsUserConnected return false.
C19_UnregisterRemoves ==
  [][\A s \in SessIds :
       UnregisterProcessed(s) =>
         /\ s \notin hub'.clients
         /\ \A d \in DOMAIN hub'.deviceClients : s \notin hub'.deviceClients[d]
         /\ \A u \in DOMAIN hub'.userClients : s \notin hub'.userClients[u]
         /\ sessions'[s].closed
         /\ \A d \in DOMAIN hub'.deviceClients : hub'.deviceClients[d] # {}
         /\ \A u \in DOMAIN hub'.userClients : hub'.userClients[u] # {}
         /\ (\A o \in hub'.clients : sessions'[o].deviceID # sessions[s].deviceID)
              => ~DeviceConnected(sessions[s].deviceID)'
         /\ (\A o \in hub'.clients : sessions'[o].userID # sessions[s].userID)
              => ~IsUserConnected(sessions[s].userID)']_vars

\* the last session of a device and user has been unregistered on its read
\* error while another session, of another device, stays registered
C19_LastSessionGone ==
  \E s, o \in SessIds :
    /\ sessions[s].reader = "done"
    /\ sessions[s].userID # ""
    /\ sessions[s].closed
    /\ o \in hub.clients
    /\ sessions[o].deviceID # sessions[s].deviceID
    /\ sessions[o].userID # sessions[s].userID
    /\ ~DeviceConnected(sessions[s].deviceID)
    /\ ~IsUserConnected(sessions[s].userID)
    /\ Alive

\* C20: shutdown closes every registered session gracefully: the hub worker
\* does not fail in the shutdown step, and when it has returned, the master
\* set and both indexes are empty and every session's channel is closed.
C20_ShutdownGraceful ==
  hub.shutdown =>
    /\ Alive
    /\ hub.run = "stopped" =>
         /\ hub.clients = {}
         /\ DOMAIN hub.deviceClients = {}
         /\ DOMAIN hub.userClients = {}
         /\ \A s \in SessIds : sessions[s].st = "open" => sessions[s].closed

\* the hub worker has panicked in the shutdown step, on the second close of
\* the channel of the first registered session; another session is still
\* registered and its channel open
C20_PanicInShutdown ==
  /\ hub.shutdown
  /\ hub.run = "panicked"
  /\ \E s, o \in SessIds :
       /\ sessions[s].closed /\ s \notin hub.clients
       /\ sessions[s].reader = "run"
       /\ o \in hub.clients /\ ~sessions[o].closed
  /\ \A s \in SessIds : drops[s] = 0


\* a step of the sweep itself: it moves on, or reaches a send
SweepStep == cleaner'.pc # cleaner.pc \/ cleaner'.sent # cleaner.sent

\* C21: an idle-reaper sweep leaves the hub's master set, device index and
\* user index as they are; the sessions it sends to Hub.unregister are
\* sessions of its snapshot whose last activity, as the sweep read it, is
\* older than the threshold, and when the sweep returns every such session
\* has been sent
C21_SweepSendsInactiveOnly ==
  /\ [](/\ \A s \in cleaner.sent :
             s \in cleaner.snapshot /\ cleaner.read[s] < cleaner.threshold
        /\ (cleaner.swept /\ cleaner.pc = "idle") =>
             \A s \in cleaner.snapshot :
               cleaner.read[s] < cleaner.threshold => s \in cleaner.sent)
  /\ [][SweepStep => /\ hub'.clients = hub.clients
                     /\ hub'.deviceClients = hub.deviceClients
                     /\ hub'.userClients = hub.userClients]_vars

\* a sweep has returned after sending one session of its snapshot and
\* keeping another, whose activity was recent
C21_OneSentOneKept ==
  /\ cleaner.swept
  /\ cleaner.pc = "idle"
  /\ cleaner.sent # {}
  /\ cleaner.snapshot \ cleaner.sent # {}
  /\ \A s \in cleaner.sent : s \notin hub.clients


\* C22: after any sequence of channel-token updates for a device, at most
\* one token per (device, type) is active, non-revoked and non-expired
C22_OneActiveTokenPerType ==
  \A d \in DeviceIds, tokenType \in TokenTypes :
    Cardinality(ActiveTokens(d, tokenType)) <= 1

\* two updates of a device's FCM token have both succeeded, with different
\* values, and the first is not yet expired
C22_TwoActiveTokens ==
  \E i, j \in ActiveTokens("d1", TokenTypeFCM) :
    /\ i < j
    /\ notification_tokens[i].token # notification_tokens[j].token


\* the rows of the devices table that are not tombstoned
Live == {i \in DOMAIN device_rows : ~device_rows[i].deleted}

C24_LinkNeedsTemporaryToken ==
  (link.called /\ link.result = "ok") => link.acceptable

\* a link request over HTTP that carried no token has bound the device to
\* the user and was answered with a permanent credential
C24_LinkedWithoutToken ==
  /\ link.called
  /\ link.via = "http"
  /\ link.token = NoToken
  /\ link.result = "ok"
  /\ link.before = NoUser
  /\ device_rows[link.device_id].user_id = link.user
  /\ link.issued # NoToken

\* C25: once a device is bound to a user, no later link or registration
\* changes its user_id
C25_UserSetOnce ==
  [][\A id \in DOMAIN device_rows :
       device_rows[id].user_id # NoUser =>
         device_rows'[id].user_id = device_rows[id].user_id]_vars

\* a link request has succeeded for a device that was bound to another user
\* and is bound to the request's user now
C25_UserReplaced ==
  /\ link.called
  /\ link.result = "ok"
  /\ link.before \notin {NoUser, link.user}
  /\ device_rows[link.device_id].user_id = link.user

\* C26: a renew request whose credential has expired and whose
\* device_identifier was recovered is answered with a new credential of the
\* shape of the old one: temporary for a temporary credential or when
\* force_temporary is set, otherwise permanent with the same user and device.
RenewedShape ==
  LET old == ParseUnverified(renew.token).claims
      new == ParseUnverified(renew.issued).claims
  IN /\ renew.result = "ok"
     /\ ~renew.issued.empty
     /\ renew.issued.signed
     /\ IF old.temp \/ renew.force
        THEN new.temp
        ELSE /\ ~new.temp
             /\ new.user_id = old.user_id
             /\ new.device_id = old.device_id

C26_RenewKeepsShape ==
  (renew.called /\ renew.err = "token has expired" /\ renew.recovered)
    => RenewedShape

\* an expired permanent credential was renewed over HTTP, without
\* force_temporary, and the answer is a temporary credential
C26_ExpiredPermanentRenewedAsTemporary ==
  /\ renew.called
  /\ renew.via = "http"
  /\ ~renew.force
  /\ renew.err = "token has expired"
  /\ renew.recovered
  /\ ~ParseUnverified(renew.token).claims.temp
  /\ ParseUnverified(renew.token).claims.user_id # ""
  /\ renew.result = "ok"
  /\ renew.token_type = "temporary"
  /\ ParseUnverified(renew.issued).claims.temp

\* C27: for every credential the authority issued, temporary or permanent,
\* of any age, with its own or with another signature, the recovery path
\* returns the device_identifier the credential was issued for.
C27_RecoveryReturnsIdentifier ==
  (renew.called /\ renew.via = "extract") =>
    /\ \A i \in DeviceIdentifiers, t \in 0..now :
         LET token == SignedString(TemporaryClaims(i, t))
         IN renew.token \in {token, Forged(token)} =>
              (renew.recovered /\ renew.identifier = i)
    /\ \A u \in UserIds, d \in DOMAIN device_rows, t \in 0..now :
         LET token == SignedString(PermanentClaims(u, d, t))
         IN renew.token \in {token, Forged(token)} =>
              /\ renew.recovered
              /\ renew.identifier = device_rows[d].device_identifier

\* the identifier of the second device was recovered from a permanent
\* credential whose exp has passed and whose signature is not the authority's
C27_RecoveredFromExpiredForged ==
  /\ renew.called
  /\ renew.via = "extract"
  /\ 2 \in DOMAIN device_rows
  /\ renew.token = Forged(SignedString(PermanentClaims("2", 2, 0)))
  /\ now > TokenExpiry
  /\ VerifyToken(renew.token).err = "invalid token"
  /\ VerifyToken(SignedString(PermanentClaims("2", 2, 0))).err = "token has expired"
  /\ renew.recovered
  /\ renew.identifier = "i2"

\* C28: a submission whose notification was not persisted has returned the
\* save error and has created no tracking row and pushed nothing; the step
\* in which it returns leaves the notifications, the tracking rows, the send
\* queues, the frames written and the retry tasks as they were.
NotPersisted == sub.pc # "idle" /\ sub.notification = 0

C28_PersistFailureIsFatal ==
  /\ [](NotPersisted =>
         /\ sub.pc = "done"
         /\ sub.result = "save_failed"
         /\ sub.created = {}
         /\ sub.attempted = {}
         /\ sub.counted = {}
         /\ ~sub.deliveredToAny)
  /\ [][(sub' # sub /\ sub'.pc # "idle" /\ sub'.notification = 0) =>
          UNCHANGED <<notifications, delivery_tracking, send, received, tasks>>]_vars

\* a submission to a connected device returned the save error while the
\* tables are empty and nothing is queued for the device
C28_SaveFailedNothingDone ==
  /\ sub.pc = "done"
  /\ sub.result = "save_failed"
  /\ sub.kind = "devices"
  /\ IsDeviceConnected("d1")
  /\ notifications = {}
  /\ delivery_tracking = << >>
  /\ \A c \in ClientIds : send[c] = << >>
  /\ received = {}

\* C30: a tracking row becomes SENT only in a step that follows or makes an
\* accepted send of the row's notification to the row's device over the
\* row's channel: the submission has just had its frame accepted by the hub,
\* or the step itself queues the frame on a session of the device.  This
\* covers the steps of retry tasks.
AcceptedSendFor(id) ==
  /\ delivery_tracking[id].channel = TokenTypeWebSocket
  /\ \/ sub.pc = "ws_mark" /\ sub.delivery = id
     \/ \E c \in deviceClients[delivery_tracking[id].device_id] :
          send'[c] = Append(send[c], delivery_tracking[id].notification_id)

C30_SentOnlyAfterAcceptedSend ==
  [][\A id \in DOMAIN delivery_tracking :
       (delivery_tracking'[id].status = DeliveryStatusSent
        /\ delivery_tracking[id].status # DeliveryStatusSent)
         => AcceptedSendFor(id)]_vars

\* a row of the FCM channel, for which no step of the service sends
\* anything, is SENT while no frame was ever queued or written
C30_SentWithoutSend ==
  \E id \in DOMAIN delivery_tracking :
    /\ delivery_tracking[id].channel = TokenTypeFCM
    /\ delivery_tracking[id].status = DeliveryStatusSent
    /\ clients = {}
    /\ received = {}
    /\ \A c \in ClientIds : send[c] = << >>

\* C29: a call of DeliveryService.UpdateStatus that found its row is accepted
\* exactly when the pair (status of the row, requested status) is in the
\* table of allowed transitions; for every other pair it returns the
\* invalid-status error and the row keeps its status.
C29_UpdateStatusFollowsTable ==
  (statusCall.called /\ statusCall.found) =>
    IF AllowedTransition(statusCall.from, statusCall.to)
    THEN statusCall.result \in {"ok", "failed to update delivery record"}
    ELSE /\ statusCall.result = "invalid delivery status"
         /\ statusCall.after = statusCall.from

\* a PENDING row was moved to DELIVERED by an accepted call
C29_PendingToDeliveredAccepted ==
  /\ statusCall.called
  /\ statusCall.found
  /\ statusCall.from = DeliveryStatusPending
  /\ statusCall.to = DeliveryStatusDelivered
  /\ statusCall.result = "ok"
  /\ delivery_tracking[statusCall.id].status = DeliveryStatusDelivered

\* C31: a retry chain is started only on a row that is FAILED with
\* retry_count below the maximum; a PENDING, SENT, DELIVERED or EXPIRED row
\* is never scheduled.
C31_OnlyFailedRowsScheduled ==
  [][\A e \in ExecIds :
       (execs[e].pc = "free" /\ execs'[e].pc = "run") =>
         /\ delivery_tracking[execs'[e].delivery].status = DeliveryStatusFailed
         /\ delivery_tracking[execs'[e].delivery].retry_count < MaxRetries]_vars

\* a retry chain runs on the PENDING row of a submission that is still
\* waiting to push the row's frame
C31_PendingRowScheduled ==
  \E e \in ExecIds :
    /\ execs[e].pc = "run"
    /\ sub.pc = "ws_send"
    /\ execs[e].delivery = sub.delivery
    /\ delivery_tracking[sub.delivery].status = DeliveryStatusPending
    /\ delivery_tracking[sub.delivery].retry_count = 0

\* C32: when a submission returns, every row it created on a provider
\* channel is SENT or FAILED and the adapter was called for it; none is left
\* PENDING and none is counted as delivered without an adapter call.
C32_ProviderRowsSettled ==
  SubFinished =>
    \A id \in sub.created :
      delivery_tracking[id].channel \in PushTokenTypes =>
        /\ delivery_tracking[id].status \in {DeliveryStatusSent, DeliveryStatusFailed}
        /\ <<delivery_tracking[id].device_id, delivery_tracking[id].channel>>
             \in sub.attempted

\* a submission has returned success with an APNS row that is PENDING, for a
\* device it counted as delivered, and no send on that channel was attempted
C32_ProviderRowLeftPending ==
  /\ SubFinished
  /\ sub.result = "success"
  /\ \E id \in sub.created :
       /\ delivery_tracking[id].channel = TokenTypeAPNS
       /\ delivery_tracking[id].status = DeliveryStatusPending
       /\ delivery_tracking[id].device_id \in sub.counted
       /\ <<delivery_tracking[id].device_id, TokenTypeAPNS>> \notin sub.attempted

\* C33: at any time there is at most one tracking row per (notification,
\* device, channel), also while two acknowledgements of a pair without a row
\* are processed concurrently.
C33_OneRowPerTriple ==
  \A i, j \in DOMAIN delivery_tracking :
    (/\ delivery_tracking[i].notification_id = delivery_tracking[j].notification_id
     /\ delivery_tracking[i].device_id = delivery_tracking[j].device_id
     /\ delivery_tracking[i].channel = delivery_tracking[j].channel)
    => i = j

\* two acknowledgements in progress at once have each inserted a live-socket
\* row for the same notification and device, and neither has marked its row
C33_ConcurrentAcksTwoRows ==
  /\ acks["a1"].pc = "mark" /\ acks["a2"].pc = "mark"
  /\ ~acks["a1"].found /\ ~acks["a2"].found
  /\ acks["a1"].delivery # acks["a2"].delivery
  /\ delivery_tracking[acks["a1"].delivery].notification_id =
       delivery_tracking[acks["a2"].delivery].notification_id
  /\ delivery_tracking[acks["a1"].delivery].device_id =
       delivery_tracking[acks["a2"].delivery].device_id
  /\ delivery_tracking[acks["a1"].delivery].channel = TokenTypeWebSocket
  /\ delivery_tracking[acks["a2"].delivery].channel = TokenTypeWebSocket

\* the delay, before jitter, that follows a delay of prev milliseconds
\* (0: no delay yet): the base interval, then the multiple, capped
DelayAfter(prev) ==
  IF prev = 0 THEN BaseInterval
  ELSE IF prev * Multiplier > MaxInterval THEN MaxInterval
  ELSE prev * Multiplier

\* C34: for a task polled with retry count 0 whose every execution fails, the
\* delay before the first retry is the base interval and the delay before each
\* later retry is the one before multiplied by the multiplier, capped at the
\* maximum interval (500 ms, then 1 s); the jittered delay is within half the
\* jitter share of it.
C34_DelaysFollowBackoff ==
  [][\A e \in ExecIds :
       (execs[e].pc = "run" /\ execs'[e].pc = "timer" /\ GetRetryCount(e) = 0) =>
         /\ execs'[e].delay = DelayAfter(execs[e].delay)
         /\ \A nano \in NanoSamples :
              /\ Jittered(execs'[e].delay, nano) >=
                   execs'[e].delay * 1000 - execs'[e].delay * JitterPercent * 5
              /\ Jittered(execs'[e].delay, nano) <=
                   execs'[e].delay * 1000 + execs'[e].delay * JitterPercent * 5]_vars

\* a chain polled with retry count 0 executes again after its first timer, set
\* to the base interval; its task is still tracked
C34_SecondExecutionAfterBase ==
  \E e \in ExecIds :
    /\ execs[e].pc = "run"
    /\ GetRetryCount(e) = 0
    /\ execs[e].attempts = 1
    /\ execs[e].delay = BaseInterval
    /\ execs[e].delivery \in tasks

C36_InvalidNeverReissued ==
  (renew.called /\ renew.err = "invalid token") => renew.issued = NoToken

\* a renew request over HTTP with a permanent token that has not expired and
\* carries a foreign signature is answered with a new temporary token for the
\* identifier read from its payload
C36_ForgedRenewed ==
  /\ renew.called
  /\ renew.via = "http"
  /\ ~renew.token.signed
  /\ renew.err = "invalid token"
  /\ renew.recovered
  /\ renew.result = "ok"
  /\ renew.issued = GenerateTemporaryToken(renew.identifier)

\* C37: no step of the hub worker closes an outbound channel that is already
\* closed (the close that stops the process), whichever unregister requests
\* reach it, and an unregister request for a session that is not registered
\* changes neither the hub nor the session's channel.
C37_ClosedAtMostOnce ==
  [][/\ Alive => Alive'
     /\ \A s \in SessIds :
          (UnregisterProcessed(s) /\ s \notin hub.clients) =>
            /\ hub' = hub
            /\ sessions'[s].closed = sessions[s].closed]_vars

\* with no shutdown asked for, the hub worker has stopped on the second close
\* of the channel of a session whose read loop's request it took: the other
\* request came from a push that found the buffer full
C37_ClosedTwice ==
  /\ ~hub.shutdown
  /\ hub.run = "panicked"
  /\ \E s \in SessIds :
       /\ sessions[s].reader = "done"
       /\ sessions[s].closed
       /\ s \notin hub.clients

\* C38: no send is ever attempted on a session's outbound channel after the
\* channel was closed: neither by SendToDevice / SendToUser running beside the
\* hub worker's unregister, nor by the session's own replies.
C38_NoSendOnClosed == sentClosed = {}

\* a SendToDevice / SendToUser call in the middle of its range has reached a
\* session the hub worker unregistered, and closed, after the range began
C38_RangeReachedClosed ==
  /\ sender.pc = "range"
  /\ \E s \in sender.seen \cap sender.visited :
       /\ s \in sentClosed
       /\ sessions[s].closed
       /\ s \notin hub.clients
  /\ hub.run = "panicked"

\* C39: in a running process, once shutdown is asked for, the read loop of
\* every session ends (its hand-off to Hub.unregister is taken and the loop's
\* deferred function goes on), the goroutine of a full-buffer drop gets rid of
\* its request, and a handshake can always hand its session to Hub.register.
C39_ShutdownReleases ==
  /\ \A s \in SessIds :
       (hub.shutdown /\ sessions[s].st = "open") ~>
         (sessions[s].reader = "done" \/ ~Alive)
  /\ \A s \in SessIds : (drops[s] > 0) ~> (drops[s] = 0 \/ ~Alive)
  /\ [](Alive => \A s \in SessIds :
                   sessions[s].st = "none" => ENABLED RunRegister(s, "d1", ""))

\* the hub worker has returned on shutdown with no session registered, and a
\* session unregistered before waits at its send to Hub.unregister, its
\* connection closed
C39_ReaderWaitsOnStoppedHub ==
  /\ hub.shutdown
  /\ hub.run = "stopped"
  /\ \E s \in SessIds :
       /\ sessions[s].st = "open"
       /\ sessions[s].reader = "unreg"
       /\ sessions[s].conn = "closed"
       /\ s \notin hub.clients

\* C40: the hub's three indexes agree: a session is in the device index, and
\* only under its own device, exactly when it is in the master set, and in
\* the user index, only under its own user, exactly when it is in the master
\* set with a user; registering a registered session again changes nothing;
\* IsDeviceConnected(d) is true exactly when a registered session is bound
\* to d.
C40_IndexesAgree ==
  /\ \A s \in SessIds, d \in DeviceIds :
       s \in Bound(hub.deviceClients, d) <=>
         (s \in hub.clients /\ sessions[s].deviceID = d)
  /\ \A s \in SessIds, u \in UserIds :
       s \in Bound(hub.userClients, u) <=>
         (s \in hub.clients /\ sessions[s].userID = u)
  /\ DOMAIN hub.userClients \subseteq UserIds
  /\ DOMAIN hub.deviceClients \subseteq DeviceIds
  /\ \A s \in hub.clients :
       registerClient(hub, s, sessions[s].deviceID, sessions[s].userID) = hub
  /\ \A d \in DeviceIds :
       DeviceConnected(d) <=> \E s \in hub.clients : sessions[s].deviceID = d

\* of two sessions registered under one device and user, one has been
\* unregistered and the other stays: the device and the user are connected by
\* it alone
C40_OneOfTwoLeft ==
  \E s, o \in SessIds :
    /\ s # o
    /\ sessions[s].st = "open" /\ sessions[s].closed /\ s \notin hub.clients
    /\ sessions[s].deviceID = sessions[o].deviceID
    /\ sessions[o].userID # ""
    /\ o \in hub.clients
    /\ hub.deviceClients[sessions[o].deviceID] = {o}
    /\ hub.userClients[sessions[o].userID] = {o}
    /\ DeviceConnected(sessions[o].deviceID)
    /\ Alive

====
